---- MODULE Spec2Model ----
(***************************************************************************)
(* A model of the passport-stamp controller of workshipai                  *)
(* (src/src/controllers/passport.ts): the GeocodingService (cache, in-     *)
(* flight map, request queue, drain loop, retrying lookup) as a state      *)
(* machine over the turns of the JavaScript event loop, and the stamp      *)
(* extraction functions as operators over character sequences.             *)
(*                                                                         *)
(* One action is one turn of the event loop: the callback of an external   *)
(* event (a call, a Redis reply, an HTTP reply, a timer) together with all *)
(* the promise continuations it makes runnable.                            *)
(***************************************************************************)
EXTENDS Integers, Sequences, FiniteSets, TLC

(***************************************************************************)
(* Bounds of the model.                                                    *)
(***************************************************************************)
NumNames == 2
NumResults == 2
MaxCalls == 2
MaxBatchNames == 3
MaxQueued == 7
Max429 == 1
MaxLines == 3
MaxBlocks == 2
MaxLen == 3
ImageSize == 100
MaxPageBlocks == 5
MaxWords == 2

Min(a, b) == IF a < b THEN a ELSE b

Max(a, b) == IF a > b THEN a ELSE b

Names == 1..NumNames
AllNames == 1..Max(Max(NumNames, MaxBatchNames), MaxQueued + 1)
Results == 1..NumResults

(***************************************************************************)
(* Program constants.                                                      *)
(***************************************************************************)
BATCH_SIZE == 5
BATCH_DELAY == 1000
retries == 3
initialDelay == 1000
RedisEx == 60 * 60 * 24 * 30

\* geocodeWithRetry and the waiters' callbacks use null for "no result".
Null == 0

VARIABLES
    redisOn,            \* this.redis is defined (REDIS_URL was set)
    memoryCache,        \* this.memoryCache : name -> result
    redisStore,         \* the keys geocode:<name> of the Redis server
    redisQ,             \* commands sent on the Redis connection, not yet answered
    pendingRequests,    \* this.pendingRequests : name -> resolve callbacks
    requestQueue,       \* this.requestQueue
    isProcessingQueue,  \* this.isProcessingQueue
    drain,              \* the processQueue invocations past their guard
    req,                \* the batchGeocode calls and their geocodeAirport calls
    spent,              \* history: geocodeAirport calls made so far
    released,           \* history: the batch whose waiters the last turn released
    lookupCount         \* history: geocodeWithRetry invocations per name

VARIABLES
    textAnnotations,    \* the OCR result of a page handed to parseStamp
    currentYear,        \* the year of new Date()
    ran,                \* the page function applied, "" before
    entries,            \* what parseStamp returned
    countryFound,       \* what detectCountry returned
    arg,                \* the arguments of a function applied on its own
    returned            \* what that function returned

pageVars == <<textAnnotations, currentYear, ran, entries, countryFound,
              arg, returned>>

geoVars == <<redisOn, memoryCache, redisStore, redisQ, pendingRequests,
             requestQueue, isProcessingQueue, drain, req, spent,
             released, lookupCount>>

----------------------------------------------------------------------------
(***************************************************************************)
(* Helpers on finite maps and sequences.                                   *)
(***************************************************************************)
Has(m, k) == k \in DOMAIN m

Put(m, k, v) == [x \in DOMAIN m \cup {k} |-> IF x = k THEN v ELSE m[x]]

Del(m, k) == [x \in DOMAIN m \ {k} |-> m[x]]

\* Variant: the batch is taken from the end of the queue.
SpliceHead_Last(q, n) == SubSeq(q, Len(q) - Min(n, Len(q)) + 1, Len(q))

\* Array.prototype.splice(0, n): the removed head and what is left.
SpliceHead(q, n) == SubSeq(q, 1, Min(n, Len(q)))

SpliceRest(q, n) == SubSeq(q, Min(n, Len(q)) + 1, Len(q))

\* F applied to the value of e, e being evaluated once.
Bind(e, F(_)) == CHOOSE y \in {F(x) : x \in {e}} : TRUE

\* The state of the service as one record, threaded through a turn.
St == [mc |-> memoryCache, rs |-> redisStore, rq |-> redisQ,
       pr |-> pendingRequests, q |-> requestQueue,
       flag |-> isProcessingQueue, dr |-> drain, req |-> req,
       lc |-> lookupCount, rel |-> <<>>]

----------------------------------------------------------------------------
(***************************************************************************)
(* geocodeWithRetry: the state of one invocation.                          *)
(***************************************************************************)
NewLookup ==
    [phase |-> "http", attempt |-> 0, delay |-> initialDelay, result |-> Null,
     got |-> Null, cacheErr |-> FALSE,
     reqs |-> 1, waits |-> <<>>, replies |-> <<>>]

\* Variant: processQueue goes on as soon as any lookup of the batch returns.
AllReturned_Any(lk) == TRUE

\* await Promise.all(promises): every lookup of the batch has returned.
AllReturned(lk) == \A k \in 1..Len(lk) : lk[k].phase = "done"

\* Variant: the attempt bound is off by one.
RetryOn429_OffByOne(attempt) == attempt < retries

\* The catch clause: retry on 429 while attempts are left.
RetryOn429(attempt) == attempt < retries - 1

----------------------------------------------------------------------------
(***************************************************************************)
(* processQueue.                                                           *)
(***************************************************************************)
\* Variant: the guard is missing.
ProcessQueueGuard_Missing(flag) == FALSE

\* Variant: the guard is inverted.
ProcessQueueGuard_Inverted(flag) == ~flag

\* if (this.isProcessingQueue) return;
ProcessQueueGuard(flag) == flag

\* Variant: every name of the batch is given the first result.
ReleaseValue_First(results, index) == results[1]

\* results.forEach((result, index) => ...): the value handed to the waiters of
\* batch[index].
ReleaseValue(results, index) == results[index]

\* pendingResolves.forEach(resolve => resolve(result)) for the waiters ws
ResolveAll(rq, ws, n, v, serial) ==
    [r \in DOMAIN rq |->
        [rq[r] EXCEPT !.pos =
            [i \in DOMAIN rq[r].pos |->
                IF \E k \in 1..Len(ws) : ws[k] = <<r, i>>
                THEN [rq[r].pos[i] EXCEPT !.st = "done", !.val = v,
                                          !.lkid = serial]
                ELSE rq[r].pos[i]]]]

RECURSIVE ReleaseFrom(_, _, _)
ReleaseFrom(s, d, index) ==
    IF index > Len(s.dr[d].batch) THEN s
    ELSE LET airportName == s.dr[d].batch[index]
             results == [k \in 1..Len(s.dr[d].lk) |-> s.dr[d].lk[k].result]
             result == ReleaseValue(results, index)
         IN IF Has(s.pr, airportName)
            THEN Bind([s EXCEPT !.req = ResolveAll(s.req, s.pr[airportName],
                                                   airportName, result,
                                                   s.lc[airportName]),
                                !.pr = Del(s.pr, airportName),
                                !.rel.waiters = Append(@, s.pr[airportName])],
                      LAMBDA t : ReleaseFrom(t, d, index + 1))
            ELSE Bind([s EXCEPT !.rel.waiters = Append(@, <<>>)],
                      LAMBDA t : ReleaseFrom(t, d, index + 1))

\* The smallest identifier no running processQueue invocation has.
FreshDrain(dr) == CHOOSE d \in 1..(Cardinality(DOMAIN dr) + 1) : d \notin DOMAIN dr

RECURSIVE ProcessQueue(_)
RECURSIVE WhileLoop(_, _)

\* finally { this.isProcessingQueue = false; if (queue.length > 0) processQueue() }
Finally(s, d) ==
    Bind([s EXCEPT !.dr = Del(s.dr, d), !.flag = FALSE],
         LAMBDA s1 : IF Len(s1.q) > 0 THEN ProcessQueue(s1) ELSE s1)

\* The top of while (this.requestQueue.length > 0): splice a batch and start
\* its lookups, up to await Promise.all(promises).
WhileLoop(s, d) ==
    IF Len(s.q) > 0
    THEN LET batch == SpliceHead(s.q, BATCH_SIZE)
         IN [s EXCEPT !.q = SpliceRest(s.q, BATCH_SIZE),
                      !.dr = Put(s.dr, d,
                                 [pc |-> "batch", timer |-> 0, batch |-> batch,
                                  lk |-> [k \in 1..Len(batch) |-> NewLookup]]),
                      !.lc = [n \in AllNames |->
                                s.lc[n] + Cardinality({k \in 1..Len(batch) :
                                                         batch[k] = n})]]
    ELSE Finally(s, d)

ProcessQueue(s) ==
    IF ProcessQueueGuard(s.flag) THEN s
    ELSE Bind([s EXCEPT !.flag = TRUE],
              LAMBDA s1 : WhileLoop(s1, FreshDrain(s1.dr)))

\* Variant: the next batch is taken without a delay.
AfterPromiseAll_NoDelay(s1, d) ==
    Bind(ReleaseFrom([s1 EXCEPT !.rel = [batch |-> s1.dr[d].batch,
                                         lk |-> s1.dr[d].lk,
                                         waiters |-> <<>>]],
                     d, 1),
         LAMBDA s2 : WhileLoop(s2, d))

\* A geocodeWithRetry promise of drain d settles with result v; when it is the
\* last of its batch, Promise.all resolves and the loop body goes on.
AfterPromiseAll(s1, d) ==
    Bind(ReleaseFrom([s1 EXCEPT !.rel = [batch |-> s1.dr[d].batch,
                                         lk |-> s1.dr[d].lk,
                                         waiters |-> <<>>]],
                     d, 1),
         LAMBDA s2 : IF Len(s2.q) > 0
                     THEN [s2 EXCEPT !.dr[d].pc = "delay",
                                     !.dr[d].timer = BATCH_DELAY]
                     ELSE WhileLoop(s2, d))

LookupReturns(s, d, i, v) ==
    Bind([s EXCEPT !.dr[d].lk[i].phase = "done", !.dr[d].lk[i].result = v],
         LAMBDA s1 :
            IF ~AllReturned(s1.dr[d].lk)
            THEN s1
            ELSE AfterPromiseAll(s1, d))

----------------------------------------------------------------------------
(***************************************************************************)
(* geocodeAirport and batchGeocode.                                        *)
(***************************************************************************)
\* Variant: the name is queued and processQueue is not called.
GeocodeAirportMiss_NoTrigger(s, p, airportName) ==
    Bind([s EXCEPT !.req[p[1]].pos[p[2]].st = "waiting",
                   !.req[p[1]].pos[p[2]].miss = TRUE],
         LAMBDA s0 :
            IF Has(s0.pr, airportName)
            THEN [s0 EXCEPT !.pr[airportName] = Append(@, p)]
            ELSE [s0 EXCEPT !.pr = Put(s0.pr, airportName, <<p>>),
                            !.q = Append(s0.q, airportName)])

\* Variant: the name is pushed onto the queue even when it is in flight.
GeocodeAirportMiss_AlwaysPush(s, p, airportName) ==
    Bind([s EXCEPT !.req[p[1]].pos[p[2]].st = "waiting",
                   !.req[p[1]].pos[p[2]].miss = TRUE],
         LAMBDA s0 :
            IF Has(s0.pr, airportName)
            THEN Bind([s0 EXCEPT !.pr[airportName] = Append(@, p),
                                 !.q = Append(s0.q, airportName)],
                      LAMBDA s1 : ProcessQueue(s1))
            ELSE Bind([s0 EXCEPT !.pr = Put(s0.pr, airportName, <<p>>),
                                 !.q = Append(s0.q, airportName)],
                      LAMBDA s1 : ProcessQueue(s1)))

\* geocodeAirport after "if (cached) return cached": join or create the
\* in-flight entry.
GeocodeAirportMiss(s, p, airportName) ==
    Bind([s EXCEPT !.req[p[1]].pos[p[2]].st = "waiting",
                   !.req[p[1]].pos[p[2]].miss = TRUE],
         LAMBDA s0 :
            IF Has(s0.pr, airportName)
            THEN [s0 EXCEPT !.pr[airportName] = Append(@, p)]
            ELSE Bind([s0 EXCEPT !.pr = Put(s0.pr, airportName, <<p>>),
                                 !.q = Append(s0.q, airportName)],
                      LAMBDA s1 : ProcessQueue(s1)))

\* Variant: checkCache does not look into the memory cache.
GeocodeAirportCall_NoMemory(s, p, airportName) ==
    IF s.redisOn
    THEN [s EXCEPT !.rq = Append(@, [op |-> "get", name |-> airportName,
                                     val |-> Null, who |-> p]),
                   !.req[p[1]].pos[p[2]].st = "checking"]
    ELSE GeocodeAirportMiss(s, p, airportName)

\* geocodeAirport up to the first suspension of checkCache.
GeocodeAirportCall(s, p, airportName) ==
    IF Has(s.mc, airportName)
    THEN [s EXCEPT !.req[p[1]].pos[p[2]].st = "done",
                   !.req[p[1]].pos[p[2]].val = s.mc[airportName]]
    ELSE IF s.redisOn
         THEN [s EXCEPT !.rq = Append(@, [op |-> "get", name |-> airportName,
                                          val |-> Null, who |-> p]),
                        !.req[p[1]].pos[p[2]].st = "checking"]
         ELSE GeocodeAirportMiss(s, p, airportName)

\* Variant: the calls of one batchGeocode only queue their names and
\* processQueue is called once after the last of them.
RECURSIVE MapGeocodeAirport_TriggerLast(_, _, _)
MapGeocodeAirport_TriggerLast(s, r, i) ==
    IF i > Len(s.req[r].names) THEN ProcessQueue(s)
    ELSE Bind(IF Has(s.mc, s.req[r].names[i]) \/ s.redisOn
              THEN GeocodeAirportCall(s, <<r, i>>, s.req[r].names[i])
              ELSE GeocodeAirportMiss_NoTrigger(s, <<r, i>>,
                                                s.req[r].names[i]),
              LAMBDA t : MapGeocodeAirport_TriggerLast(t, r, i + 1))

RECURSIVE MapGeocodeAirport(_, _, _)
MapGeocodeAirport(s, r, i) ==
    IF i > Len(s.req[r].names) THEN s
    ELSE Bind(GeocodeAirportCall(s, <<r, i>>, s.req[r].names[i]),
              LAMBDA t : MapGeocodeAirport(t, r, i + 1))

\* Promise.all over the geocodeAirport promises of one batchGeocode call.
PromiseAll(vals) == vals

Settle(rq) ==
    [r \in DOMAIN rq |->
        IF rq[r].st # "pending" THEN rq[r]
        ELSE IF \E i \in DOMAIN rq[r].pos : rq[r].pos[i].st = "rejected"
             THEN [rq[r] EXCEPT !.st = "rejected"]
             ELSE IF \A i \in DOMAIN rq[r].pos : rq[r].pos[i].st = "done"
                  THEN [rq[r] EXCEPT !.st = "fulfilled",
                          !.ret = PromiseAll([i \in DOMAIN rq[r].pos |->
                                                rq[r].pos[i].val])]
                  ELSE rq[r]]

\* The geocodeAirport calls that have not completed.
InProgress(rq) ==
    {p \in (DOMAIN rq) \X (1..Max(Max(MaxCalls, MaxBatchNames), MaxQueued)) :
        /\ p[2] \in DOMAIN rq[p[1]].pos
        /\ rq[p[1]].pos[p[2]].st \in {"checking", "waiting"}}


NewPos == [st |-> "called", val |-> Null, miss |-> FALSE, lkid |-> 0]

NameLists == UNION {[1..n -> Names] : n \in 0..MaxCalls}

\* What a batchGeocode call takes of the MaxCalls budget.
Cost(airportNames) == Max(Len(airportNames), 1)


\* The end of a turn: the variables take the values of the threaded record.
Commit(turn) == \E s \in {turn} :
    /\ memoryCache' = s.mc
    /\ redisStore' = s.rs
    /\ redisQ' = s.rq
    /\ pendingRequests' = s.pr
    /\ requestQueue' = s.q
    /\ isProcessingQueue' = s.flag
    /\ drain' = s.dr
    /\ req' = Settle(s.req)
    /\ lookupCount' = s.lc
    /\ released' = s.rel
    /\ UNCHANGED redisOn
    /\ UNCHANGED pageVars

StT == St @@ [redisOn |-> redisOn]

----------------------------------------------------------------------------
(***************************************************************************)
(* The turns of the event loop.                                            *)
(***************************************************************************)
\* A caller invokes batchGeocode(airportNames).
BatchGeocode(airportNames) ==
    /\ spent' = spent + Cost(airportNames)
    /\ LET r == spent + 1
           s0 == [StT EXCEPT !.req =
                     Put(req, r,
                         [st |-> "pending", names |-> airportNames,
                          pos |-> [i \in 1..Len(airportNames) |-> NewPos],
                          ret |-> <<>>, conc |-> InProgress(req)])]
       IN Commit(MapGeocodeAirport(s0, r, 1))

\* The reply to the oldest outstanding Redis command arrives.
RedisReply(ok) ==
    /\ Len(redisQ) > 0
    /\ UNCHANGED spent
    /\ LET c == Head(redisQ)
           s0 == [StT EXCEPT !.rq = Tail(redisQ)]
           p == c.who
       IN IF c.op = "get"
          THEN IF ~ok
               THEN Commit([s0 EXCEPT !.req[p[1]].pos[p[2]].st = "rejected"])
               ELSE IF Has(s0.rs, c.name)
                    THEN Commit([s0 EXCEPT
                            !.mc = Put(s0.mc, c.name, s0.rs[c.name].val),
                            !.req[p[1]].pos[p[2]].st = "done",
                            !.req[p[1]].pos[p[2]].val = s0.rs[c.name].val])
                    ELSE Commit(GeocodeAirportMiss(s0, p, c.name))
          ELSE IF ok
               THEN Commit(LookupReturns(
                      [s0 EXCEPT !.rs = Put(s0.rs, c.name,
                                            [val |-> c.val, ex |-> RedisEx])],
                      p[1], p[2], c.val))
               ELSE Commit(LookupReturns(
                      [s0 EXCEPT !.dr[p[1]].lk[p[2]].cacheErr = TRUE],
                      p[1], p[2], Null))

\* The reply to the HTTP request of lookup i of drain d arrives:
\* kind is "ok" (v = data[0], or Null for an empty list), "429" or "error".
HttpReply(d, i, kind, v) ==
    /\ Has(drain, d)
    /\ i \in 1..Len(drain[d].lk)
    /\ drain[d].lk[i].phase = "http"
    /\ UNCHANGED spent
    /\ LET airportName == drain[d].batch[i]
           lk == drain[d].lk[i]
           s0 == [StT EXCEPT !.dr[d].lk[i].replies =
                                Append(@, IF kind = "ok" /\ v = Null
                                          THEN "empty" ELSE kind)]
       IN CASE kind = "ok" /\ v # Null ->
                 \* setCache: the memory tier, then the Redis tier if any
                 LET s1 == [s0 EXCEPT !.mc = Put(s0.mc, airportName, v)]
                 IN IF redisOn
                    THEN Commit([s1 EXCEPT
                            !.rq = Append(@, [op |-> "set",
                                              name |-> airportName,
                                              val |-> v, who |-> <<d, i>>]),
                            !.dr[d].lk[i].phase = "set",
                            !.dr[d].lk[i].got = v])
                    ELSE Commit(LookupReturns(
                           [s1 EXCEPT !.dr[d].lk[i].got = v], d, i, v))
            [] kind = "ok" /\ v = Null ->
                 Commit(LookupReturns(s0, d, i, Null))
            [] kind = "429" /\ RetryOn429(lk.attempt) ->
                 Commit([s0 EXCEPT !.dr[d].lk[i].phase = "backoff"])
            [] OTHER ->
                 Commit(LookupReturns(s0, d, i, Null))

\* The backoff timer of lookup i of drain d fires: delay *= 2; continue.
BackoffTimer(d, i) ==
    /\ Has(drain, d)
    /\ i \in 1..Len(drain[d].lk)
    /\ drain[d].lk[i].phase = "backoff"
    /\ UNCHANGED spent
    /\ Commit([StT EXCEPT
          !.dr[d].lk[i] = [@ EXCEPT !.phase = "http",
                                    !.attempt = @ + 1,
                                    !.waits = Append(@, drain[d].lk[i].delay),
                                    !.delay = @ * 2,
                                    !.reqs = @ + 1]])

\* The inter-batch timer of drain d fires.
BatchDelayTimer(d) ==
    /\ Has(drain, d)
    /\ drain[d].pc = "delay"
    /\ UNCHANGED spent
    /\ Commit(WhileLoop(StT, d))

EmptyMap == [x \in {} |-> Null]

GeoInit ==
    /\ redisOn \in BOOLEAN
    /\ memoryCache = EmptyMap
    /\ redisStore \in IF redisOn
                      THEN {EmptyMap,
                            Put(EmptyMap, 1, [val |-> 1, ex |-> RedisEx])}
                      ELSE {EmptyMap}
    /\ redisQ = <<>>
    /\ pendingRequests = EmptyMap
    /\ requestQueue = <<>>
    /\ isProcessingQueue = FALSE
    /\ drain = EmptyMap
    /\ req = EmptyMap
    /\ spent = 0
    /\ released = <<>>
    /\ lookupCount = [n \in AllNames |-> 0]

\* No page has been handed to the stamp extraction functions.
PageIdle ==
    /\ textAnnotations = <<>>
    /\ currentYear = 2026
    /\ ran = ""
    /\ entries = <<>>
    /\ countryFound = [country |-> "", confidence |-> 0]
    /\ arg = <<>>
    /\ returned = <<>>

Init == GeoInit /\ PageIdle

HttpKinds == {"ok", "429", "error"}

Next ==
    \/ \E airportNames \in NameLists :
          /\ spent + Cost(airportNames) <= MaxCalls
          /\ BatchGeocode(airportNames)
    \/ \E ok \in BOOLEAN : RedisReply(ok)
    \/ \E d \in DOMAIN drain, i \in 1..BATCH_SIZE, kind \in HttpKinds,
          v \in Results \cup {Null} :
            /\ (kind # "ok" => v = Null)
            /\ HttpReply(d, i, kind, v)
    \/ \E d \in DOMAIN drain, i \in 1..BATCH_SIZE : BackoffTimer(d, i)
    \/ \E d \in DOMAIN drain : BatchDelayTimer(d)

vars == <<geoVars, pageVars>>

Spec == Init /\ [][Next]_vars

\* One caller resolves a list of distinct names in a single batchGeocode call.
NextBatch ==
    \/ \E n \in 1..MaxBatchNames :
          /\ spent = 0
          /\ BatchGeocode([k \in 1..n |-> k])
    \/ \E ok \in BOOLEAN : RedisReply(ok)
    \/ \E d \in DOMAIN drain, i \in 1..BATCH_SIZE, kind \in HttpKinds,
          v \in Results \cup {Null} :
            /\ (kind # "ok" => v = Null)
            /\ HttpReply(d, i, kind, v)
    \/ \E d \in DOMAIN drain, i \in 1..BATCH_SIZE : BackoffTimer(d, i)
    \/ \E d \in DOMAIN drain : BatchDelayTimer(d)

SpecBatch == Init /\ [][NextBatch]_vars

\* One caller resolves MaxQueued distinct names in a single batchGeocode
\* call, without Redis, and a further name is asked for later; the upstream
\* service answers with one result or an error, and with 429 at most Max429
\* times per batch.
Count429(dr) ==
    Cardinality({t \in (DOMAIN dr) \X (1..BATCH_SIZE) \X (1..retries) :
                    /\ t[2] <= Len(dr[t[1]].lk)
                    /\ t[3] <= Len(dr[t[1]].lk[t[2]].replies)
                    /\ dr[t[1]].lk[t[2]].replies[t[3]] = "429"})

NextDrain ==
    \/ /\ spent = 0
       /\ BatchGeocode([k \in 1..MaxQueued |-> k])
    \/ /\ spent = MaxQueued
       /\ BatchGeocode(<<MaxQueued + 1>>)
    \/ \E d \in DOMAIN drain, i \in 1..BATCH_SIZE, kind \in HttpKinds :
            /\ (kind = "429" => Count429(drain) < Max429)
            /\ HttpReply(d, i, kind, IF kind = "ok" THEN 1 ELSE Null)
    \/ \E d \in DOMAIN drain, i \in 1..BATCH_SIZE : BackoffTimer(d, i)
    \/ \E d \in DOMAIN drain : BatchDelayTimer(d)

DrainInit == Init /\ ~redisOn

SpecDrain == DrainInit /\ [][NextDrain]_vars

\* Every Redis command, HTTP request and timer eventually completes.
Fairness ==
    /\ WF_vars(\E ok \in BOOLEAN : RedisReply(ok))
    /\ WF_vars(\E d \in DOMAIN drain, i \in 1..BATCH_SIZE, kind \in HttpKinds,
                  v \in Results \cup {Null} :
                    /\ (kind # "ok" => v = Null)
                    /\ HttpReply(d, i, kind, v))
    /\ WF_vars(\E d \in DOMAIN drain, i \in 1..BATCH_SIZE : BackoffTimer(d, i))
    /\ WF_vars(\E d \in DOMAIN drain : BatchDelayTimer(d))

LiveSpec == Spec /\ Fairness

----------------------------------------------------------------------------
(***************************************************************************)
(* The stamp extraction functions.  A JavaScript string is a TLA+ string;  *)
(* the character at index i - 1 of s is SubSeq(s, i, i).  A confidence is  *)
(* held in hundredths (0.95 is 95).                                        *)
(***************************************************************************)
charAt(s, i) == SubSeq(s, i, i)

CharsOf(s) == {charAt(s, i) : i \in 1..Len(s)}

\* The position of character c in chars, 0 when it is not there.
indexOfChar(chars, c) ==
    IF \E i \in 1..Len(chars) : charAt(chars, i) = c
    THEN CHOOSE i \in 1..Len(chars) : charAt(chars, i) = c
    ELSE 0

\* String.prototype.includes
includes(s, sub) ==
    \/ Len(sub) = 0
    \/ \E i \in 1..(Len(s) - Len(sub) + 1) : SubSeq(s, i, i + Len(sub) - 1) = sub

\* Array.prototype.includes
ArrayIncludes(list, x) == \E k \in 1..Len(list) : list[k] = x

\* list.some(item => s.includes(item))
SomeIncluded(s, list) == \E k \in 1..Len(list) : includes(s, list[k])

\* The index of the first element that passes the test, 0 when none does
\* (Array.prototype.find, and the first iteration of a loop that returns).
FirstIndex(list, Test(_)) ==
    LET hits == {i \in 1..Len(list) : Test(list[i])}
    IN  IF hits = {} THEN 0 ELSE CHOOSE i \in hits : \A j \in hits : i <= j

RECURSIVE join(_, _)
join(list, sep) ==
    IF Len(list) = 0 THEN ""
    ELSE IF Len(list) = 1 THEN list[1]
    ELSE list[1] \o sep \o join(Tail(list), sep)

RECURSIVE SplitFrom(_, _, _, _)
SplitFrom(s, sep, i, cur) ==
    IF i > Len(s) THEN <<cur>>
    ELSE IF charAt(s, i) = sep THEN <<cur>> \o SplitFrom(s, sep, i + 1, "")
    ELSE SplitFrom(s, sep, i + 1, cur \o charAt(s, i))

\* String.prototype.split with a one-character separator
split(s, sep) == SplitFrom(s, sep, 1, "")

UpperLetters == "ABCDEFGHIJKLMNOPQRSTUVWXYZ"
LowerLetters == "abcdefghijklmnopqrstuvwxyz"
DigitChars == "0123456789"

\* The classes \d, [A-Z], \w and \s of a regular expression without the u
\* flag, and the characters the dot matches.
Digit == CharsOf(DigitChars)
AZ == CharsOf(UpperLetters)
Word == CharsOf(UpperLetters) \cup CharsOf(LowerLetters) \cup Digit \cup {"_"}
WhiteSpace == {" ", "\t", "\n", "\r", "\f"}
LineTerminator == {"\n", "\r"}

\* The letters that have an upper-case form, among the characters of the
\* tables and of the pages.
LowerAll == LowerLetters \o "áíóçýøüéè"
UpperAll == UpperLetters \o "ÁÍÓÇÝØÜÉÈ"

UpperOf == [c \in CharsOf(LowerAll) |-> charAt(UpperAll, indexOfChar(LowerAll, c))]

toUpperChar(c) == IF c \in DOMAIN UpperOf THEN UpperOf[c] ELSE c

RECURSIVE UpperFrom(_, _)
UpperFrom(s, i) ==
    IF i > Len(s) THEN "" ELSE toUpperChar(charAt(s, i)) \o UpperFrom(s, i + 1)

toUpperCase(s) == UpperFrom(s, 1)

\* String.prototype.trim
trim(s) ==
    LET keep == {i \in 1..Len(s) : charAt(s, i) \notin WhiteSpace}
    IN  IF keep = {} THEN ""
        ELSE SubSeq(s, CHOOSE i \in keep : \A j \in keep : i <= j,
                       CHOOSE i \in keep : \A j \in keep : i >= j)

\* The characters [\w\s,.-]
Kept == Word \cup WhiteSpace \cup {",", ".", "-"}

\* .replace(/[^\w\s,.-]/g, '')
RECURSIVE StripFrom(_, _)
StripFrom(s, i) ==
    IF i > Len(s) THEN ""
    ELSE (IF charAt(s, i) \in Kept THEN charAt(s, i) ELSE "")
            \o StripFrom(s, i + 1)

\* .replace(/\s+/g, ' ')
RECURSIVE CollapseFrom(_, _)
CollapseFrom(s, i) ==
    IF i > Len(s) THEN ""
    ELSE (IF charAt(s, i) \notin WhiteSpace THEN charAt(s, i)
          ELSE IF i > 1 /\ charAt(s, i - 1) \in WhiteSpace THEN ""
          ELSE " ") \o CollapseFrom(s, i + 1)

\* Variant: the characters are stripped after the white space is collapsed
\* and trimmed.
normalizeText_StripLast(text) ==
    Bind(toUpperCase(text), LAMBDA upper :
    Bind(CollapseFrom(upper, 1), LAMBDA collapsed :
    Bind(trim(collapsed), LAMBDA trimmed : StripFrom(trimmed, 1))))

normalizeText(text) ==
    Bind(toUpperCase(text), LAMBDA upper :
    Bind(StripFrom(upper, 1), LAMBDA stripped :
    Bind(CollapseFrom(stripped, 1), LAMBDA collapsed : trim(collapsed))))

\* The tables of the controller.  The letters Z and C with caron of the
\* Slovenian entries are written as Y with acute and C with cedilla: like
\* them they are outside \w, so normalizeText removes them from any text.
COUNTRY_AIRPORTS == <<
    [key |-> "HR", name |-> "Croatia",
     codes |-> <<"HR", "HRV", "CROATIA", "HR:">>,
     airports |-> <<
          [name |-> "Split Airport",
           codes |-> <<"SPLIT", "SPU", "A 008", "A008", "SPLIT AIRPORT", "SPU AIRPORT">>],
          [name |-> "Zagreb Airport",
           codes |-> <<"ZAGREB", "ZAG", "ZAGREB AIRPORT">>],
          [name |-> "Dubrovnik Airport",
           codes |-> <<"DUBROVNIK", "DBV", "DUBROVNIK AIRPORT">>],
          [name |-> "Zadar Airport",
           codes |-> <<"ZADAR", "ZAD", "ZADAR AIRPORT">>]>>],
    [key |-> "AT", name |-> "Austria",
     codes |-> <<"AT", "AUT", "AUSTRIA">>,
     airports |-> <<
          [name |-> "Vienna International Airport",
           codes |-> <<"VIE", "WIEN", "VIENNA", "VIE AIRPORT", "VIENNA INTERNATIONAL AIRPORT">>]>>],
    [key |-> "BE", name |-> "Belgium",
     codes |-> <<"BE", "BEL", "BELGIUM">>,
     airports |-> <<
          [name |-> "Brussels Airport",
           codes |-> <<"BRU", "BRUSSELS", "ZAVENTEM", "BRUSSELS AIRPORT", "ZAVENTEM AIRPORT">>]>>],
    [key |-> "DK", name |-> "Denmark",
     codes |-> <<"DK", "DNK", "DENMARK">>,
     airports |-> <<
          [name |-> "Copenhagen Airport",
           codes |-> <<"CPH", "KØBENHAVN", "KOBENHAVN", "KASTRUP", "CPH AIRPORT", "KØBENHAVN AIRPORT", "KASTRUP AIRPORT">>]>>],
    [key |-> "FR", name |-> "France",
     codes |-> <<"FR", "FRA", "FRANCE">>,
     airports |-> <<
          [name |-> "Charles de Gaulle Airport",
           codes |-> <<"CDG", "ROISSY", "PARIS CDG", "CDG AIRPORT", "CHARLES DE GAULLE AIRPORT", "ROISSY AIRPORT">>],
          [name |-> "Orly Airport",
           codes |-> <<"ORY", "PARIS ORLY", "ORY AIRPORT", "PARIS ORLY AIRPORT">>]>>],
    [key |-> "DE", name |-> "Germany",
     codes |-> <<"DE", "DEU", "GERMANY">>,
     airports |-> <<
          [name |-> "Frankfurt Airport",
           codes |-> <<"FRA", "FRANKFURT", "FRA AIRPORT", "FRANKFURT AIRPORT">>],
          [name |-> "Munich Airport",
           codes |-> <<"MUC", "MÜNCHEN", "MUNICH", "MUC AIRPORT", "MÜNCHEN AIRPORT", "MUNICH AIRPORT">>]>>],
    [key |-> "IT", name |-> "Italy",
     codes |-> <<"IT", "ITA", "ITALY">>,
     airports |-> <<
          [name |-> "Rome Fiumicino Airport",
           codes |-> <<"FCO", "ROMA", "ROME", "FIUMICINO", "FCO AIRPORT", "ROME FIUMICINO AIRPORT", "FIUMICINO AIRPORT">>],
          [name |-> "Milan Malpensa Airport",
           codes |-> <<"MXP", "MILANO", "MILAN", "MALPENSA", "MXP AIRPORT", "MILAN MALPENSA AIRPORT", "MALPENSA AIRPORT">>]>>],
    [key |-> "NL", name |-> "Netherlands",
     codes |-> <<"NL", "NLD", "NETHERLANDS">>,
     airports |-> <<
          [name |-> "Amsterdam Airport Schiphol",
           codes |-> <<"AMS", "SCHIPHOL", "AMSTERDAM", "AMS AIRPORT", "AMSTERDAM AIRPORT SCHIPHOL", "SCHIPHOL AIRPORT">>]>>],
    [key |-> "ES", name |-> "Spain",
     codes |-> <<"ES", "ESP", "SPAIN">>,
     airports |-> <<
          [name |-> "Madrid Barajas Airport",
           codes |-> <<"MAD", "MADRID", "BARAJAS", "MAD AIRPORT", "MADRID BARAJAS AIRPORT", "BARAJAS AIRPORT">>],
          [name |-> "Barcelona El Prat Airport",
           codes |-> <<"BCN", "BARCELONA", "EL PRAT", "BCN AIRPORT", "BARCELONA EL PRAT AIRPORT", "EL PRAT AIRPORT">>]>>],
    [key |-> "IN", name |-> "India",
     codes |-> <<"IN", "IND", "INDIA">>,
     airports |-> <<
          [name |-> "Indira Gandhi International Airport",
           codes |-> <<"DEL", "DELHI", "IGI", "NEW DELHI", "DEL AIRPORT", "DELHI AIRPORT", "IGI AIRPORT", "NEW DELHI AIRPORT", "INDIRA GANDHI INTERNATIONAL AIRPORT">>],
          [name |-> "Chhatrapati Shivaji International Airport",
           codes |-> <<"BOM", "MUMBAI", "CSMI", "SAHAR", "BOM AIRPORT", "MUMBAI AIRPORT", "CSMI AIRPORT", "SAHAR AIRPORT", "CHHATRAPATI SHIVAJI INTERNATIONAL AIRPORT">>],
          [name |-> "Kempegowda International Airport",
           codes |-> <<"BLR", "BANGALORE", "BENGALURU", "BLR AIRPORT", "BANGALORE AIRPORT", "BENGALURU AIRPORT", "KEMPEGOWDA INTERNATIONAL AIRPORT">>],
          [name |-> "Chennai International Airport",
           codes |-> <<"MAA", "CHENNAI", "MADRAS", "MAA AIRPORT", "CHENNAI AIRPORT", "MADRAS AIRPORT", "CHENNAI INTERNATIONAL AIRPORT">>]>>],
    [key |-> "CZ", name |-> "Czech Republic",
     codes |-> <<"CZ", "CZE", "CZECH REPUBLIC", "CZECH">>,
     airports |-> <<
          [name |-> "Václav Havel Airport Prague",
           codes |-> <<"PRG", "PRAGUE", "VACLAV HAVEL", "VACLAV HAVEL AIRPORT PRAGUE", "PRAGUE AIRPORT">>]>>],
    [key |-> "EE", name |-> "Estonia",
     codes |-> <<"EE", "EST", "ESTONIA">>,
     airports |-> <<
          [name |-> "Lennart Meri Tallinn Airport",
           codes |-> <<"TLL", "TALLINN", "LENNART MERI", "LENNART MERI TALLINN AIRPORT", "TALLINN AIRPORT">>]>>],
    [key |-> "FI", name |-> "Finland",
     codes |-> <<"FI", "FIN", "FINLAND">>,
     airports |-> <<
          [name |-> "Helsinki Airport",
           codes |-> <<"HEL", "HELSINKI", "VANTAA", "HELSINKI AIRPORT", "VANTAA AIRPORT">>]>>],
    [key |-> "GR", name |-> "Greece",
     codes |-> <<"GR", "GRC", "GREECE">>,
     airports |-> <<
          [name |-> "Athens International Airport",
           codes |-> <<"ATH", "ATHENS", "ELEFTHERIOS VENIZELOS", "ATHENS INTERNATIONAL AIRPORT", "ELEFTHERIOS VENIZELOS AIRPORT">>],
          [name |-> "Thessaloniki Airport",
           codes |-> <<"SKG", "THESSALONIKI", "MACEDONIA", "THESSALONIKI AIRPORT", "MACEDONIA AIRPORT">>]>>],
    [key |-> "HU", name |-> "Hungary",
     codes |-> <<"HU", "HUN", "HUNGARY">>,
     airports |-> <<
          [name |-> "Budapest Ferenc Liszt International Airport",
           codes |-> <<"BUD", "BUDAPEST", "FERENC LISZT", "BUDAPEST FERENC LISZT INTERNATIONAL AIRPORT", "FERENC LISZT INTERNATIONAL AIRPORT">>]>>],
    [key |-> "IS", name |-> "Iceland",
     codes |-> <<"IS", "ISL", "ICELAND">>,
     airports |-> <<
          [name |-> "Keflavík International Airport",
           codes |-> <<"KEF", "KEFLAVIK", "REYKJAVIK", "KEFLAVIK INTERNATIONAL AIRPORT", "REYKJAVIK AIRPORT">>]>>],
    [key |-> "LV", name |-> "Latvia",
     codes |-> <<"LV", "LVA", "LATVIA">>,
     airports |-> <<
          [name |-> "Riga International Airport",
           codes |-> <<"RIX", "RIGA", "RIGA INTERNATIONAL AIRPORT">>]>>],
    [key |-> "LI", name |-> "Liechtenstein",
     codes |-> <<"LI", "LIE", "LIECHTENSTEIN">>,
     airports |-> <<>>],
    [key |-> "LT", name |-> "Lithuania",
     codes |-> <<"LT", "LTU", "LITHUANIA">>,
     airports |-> <<
          [name |-> "Vilnius Airport",
           codes |-> <<"VNO", "VILNIUS", "VILNIUS AIRPORT">>],
          [name |-> "Kaunas Airport",
           codes |-> <<"KUN", "KAUNAS", "KAUNAS AIRPORT">>]>>],
    [key |-> "LU", name |-> "Luxembourg",
     codes |-> <<"LU", "LUX", "LUXEMBOURG">>,
     airports |-> <<
          [name |-> "Luxembourg Airport",
           codes |-> <<"LUX", "LUXEMBOURG-FINDEL", "LUXEMBOURG", "LUXEMBOURG AIRPORT", "LUXEMBOURG-FINDEL AIRPORT", "FINDEL">>]>>],
    [key |-> "MT", name |-> "Malta",
     codes |-> <<"MT", "MLT", "MALTA">>,
     airports |-> <<
          [name |-> "Malta International Airport",
           codes |-> <<"MLA", "MALTA", "MALTA INTERNATIONAL AIRPORT">>]>>],
    [key |-> "NO", name |-> "Norway",
     codes |-> <<"NO", "NOR", "NORWAY">>,
     airports |-> <<
          [name |-> "Oslo Airport",
           codes |-> <<"OSL", "OSLO", "GARDERMOEN", "OSLO AIRPORT", "OSLO GARDERMOEN AIRPORT">>]>>],
    [key |-> "PL", name |-> "Poland",
     codes |-> <<"PL", "POL", "POLAND">>,
     airports |-> <<
          [name |-> "Warsaw Chopin Airport",
           codes |-> <<"WAW", "WARSAW", "CHOPIN", "WARSAW CHOPIN AIRPORT", "CHOPIN AIRPORT">>],
          [name |-> "Kraków John Paul II International Airport",
           codes |-> <<"KRK", "KRAKOW", "KRAKÓW", "JOHN PAUL II", "KRAKOW AIRPORT", "KRAKÓW JOHN PAUL II INTERNATIONAL AIRPORT", "JOHN PAUL II INTERNATIONAL AIRPORT">>]>>],
    [key |-> "PT", name |-> "Portugal",
     codes |-> <<"PT", "PRT", "PORTUGAL">>,
     airports |-> <<
          [name |-> "Lisbon Airport",
           codes |-> <<"LIS", "LISBON", "LISBOA", "LISBON AIRPORT", "LISBOA AIRPORT">>],
          [name |-> "Francisco Sá Carneiro Airport",
           codes |-> <<"OPO", "PORTO", "PORTO AIRPORT", "FRANCISCO SÁ CARNEIRO AIRPORT">>]>>],
    [key |-> "SK", name |-> "Slovakia",
     codes |-> <<"SK", "SVK", "SLOVAKIA">>,
     airports |-> <<
          [name |-> "Bratislava Airport",
           codes |-> <<"BTS", "BRATISLAVA", "BRATISLAVA AIRPORT">>]>>],
    [key |-> "SI", name |-> "Slovenia",
     codes |-> <<"SI", "SVN", "SLOVENIA">>,
     airports |-> <<
          [name |-> "Ljubljana Joýe Puçnik Airport",
           codes |-> <<"LJU", "LJUBLJANA", "JOÝE PUÇNIK", "LJUBLJANA JOÝE PUÇNIK AIRPORT", "JOÝE PUÇNIK AIRPORT">>]>>],
    [key |-> "SE", name |-> "Sweden",
     codes |-> <<"SE", "SWE", "SWEDEN">>,
     airports |-> <<
          [name |-> "Stockholm Arlanda Airport",
           codes |-> <<"ARN", "STOCKHOLM", "ARLANDA", "STOCKHOLM ARLANDA AIRPORT", "ARLANDA AIRPORT">>],
          [name |-> "Gothenburg Landvetter Airport",
           codes |-> <<"GOT", "GOTHENBURG", "LANDVETTER", "GOTHENBURG LANDVETTER AIRPORT", "LANDVETTER AIRPORT">>]>>],
    [key |-> "CH", name |-> "Switzerland",
     codes |-> <<"CH", "CHE", "SWITZERLAND", "SCHWEIZ">>,
     airports |-> <<
          [name |-> "Zurich Airport",
           codes |-> <<"ZRH", "ZURICH", "ZÜRICH", "ZURICH AIRPORT", "ZÜRICH AIRPORT">>],
          [name |-> "Geneva Airport",
           codes |-> <<"GVA", "GENEVA", "GENÈVE", "GENEVA AIRPORT", "GENÈVE AIRPORT">>]>>],
    [key |-> "CN", name |-> "China",
     codes |-> <<"CN", "CHN", "CHINA">>,
     airports |-> <<
          [name |-> "Beijing Capital International Airport",
           codes |-> <<"PEK", "BEIJING", "CAPITAL", "BEIJING CAPITAL INTERNATIONAL AIRPORT", "PEK AIRPORT">>],
          [name |-> "Shanghai Pudong International Airport",
           codes |-> <<"PVG", "SHANGHAI", "PUDONG", "SHANGHAI PUDONG INTERNATIONAL AIRPORT", "PVG AIRPORT">>],
          [name |-> "Guangzhou Baiyun International Airport",
           codes |-> <<"CAN", "GUANGZHOU", "BAIYUN", "GUANGZHOU BAIYUN INTERNATIONAL AIRPORT", "CAN AIRPORT">>]>>],
    [key |-> "US", name |-> "United States of America",
     codes |-> <<"US", "USA", "UNITED STATES", "UNITED STATES OF AMERICA">>,
     airports |-> <<
          [name |-> "Hartsfield-Jackson Atlanta International Airport",
           codes |-> <<"ATL", "ATLANTA", "HARTSFIELD-JACKSON", "HARTSFIELD-JACKSON ATLANTA INTERNATIONAL AIRPORT", "ATL AIRPORT">>],
          [name |-> "Los Angeles International Airport",
           codes |-> <<"LAX", "LOS ANGELES", "LAX AIRPORT", "LOS ANGELES INTERNATIONAL AIRPORT">>],
          [name |-> "O'Hare International Airport",
           codes |-> <<"ORD", "CHICAGO", "O'HARE", "O'HARE INTERNATIONAL AIRPORT", "ORD AIRPORT">>],
          [name |-> "Dallas/Fort Worth International Airport",
           codes |-> <<"DFW", "DALLAS", "FORT WORTH", "DALLAS/FORT WORTH INTERNATIONAL AIRPORT", "DFW AIRPORT">>],
          [name |-> "Denver International Airport",
           codes |-> <<"DEN", "DENVER", "DENVER INTERNATIONAL AIRPORT", "DEN AIRPORT">>],
          [name |-> "John F. Kennedy International Airport",
           codes |-> <<"JFK", "NEW YORK", "KENNEDY", "JOHN F. KENNEDY INTERNATIONAL AIRPORT", "JFK AIRPORT">>]>>]
>>

cityMapping == <<
    <<"KØBENHAVN", "Denmark">>,
    <<"KOBENHAVN", "Denmark">>,
    <<"KASTRUP", "Denmark">>,
    <<"PARIS", "France">>,
    <<"ROISSY", "France">>,
    <<"ORLY", "France">>,
    <<"FRANKFURT", "Germany">>,
    <<"MÜNCHEN", "Germany">>,
    <<"MUNICH", "Germany">>,
    <<"AMSTERDAM", "Netherlands">>,
    <<"SCHIPHOL", "Netherlands">>,
    <<"MADRID", "Spain">>,
    <<"BARAJAS", "Spain">>,
    <<"BARCELONA", "Spain">>,
    <<"EL PRAT", "Spain">>,
    <<"ROMA", "Italy">>,
    <<"ROME", "Italy">>,
    <<"MILANO", "Italy">>,
    <<"MILAN", "Italy">>,
    <<"FIUMICINO", "Italy">>,
    <<"MALPENSA", "Italy">>,
    <<"BRUSSELS", "Belgium">>,
    <<"ZAVENTEM", "Belgium">>,
    <<"WIEN", "Austria">>,
    <<"VIENNA", "Austria">>,
    <<"SPLIT", "Croatia">>,
    <<"ZAGREB", "Croatia">>,
    <<"DUBROVNIK", "Croatia">>,
    <<"ZADAR", "Croatia">>,
    <<"MUMBAI", "India">>,
    <<"DELHI", "India">>,
    <<"NEW DELHI", "India">>,
    <<"BANGALORE", "India">>,
    <<"BENGALURU", "India">>,
    <<"CHENNAI", "India">>,
    <<"MADRAS", "India">>,
    <<"PRAGUE", "Czech Republic">>,
    <<"VACLAV HAVEL", "Czech Republic">>,
    <<"TALLINN", "Estonia">>,
    <<"LENNART MERI", "Estonia">>,
    <<"HELSINKI", "Finland">>,
    <<"VANTAA", "Finland">>,
    <<"ATHENS", "Greece">>,
    <<"ELEFTHERIOS VENIZELOS", "Greece">>,
    <<"THESSALONIKI", "Greece">>,
    <<"MACEDONIA", "Greece">>,
    <<"BUDAPEST", "Hungary">>,
    <<"FERENC LISZT", "Hungary">>,
    <<"REYKJAVIK", "Iceland">>,
    <<"KEFLAVIK", "Iceland">>,
    <<"RIGA", "Latvia">>,
    <<"VILNIUS", "Lithuania">>,
    <<"KAUNAS", "Lithuania">>,
    <<"LUXEMBOURG", "Luxembourg">>,
    <<"MALTA", "Malta">>,
    <<"OSLO", "Norway">>,
    <<"GARDERMOEN", "Norway">>,
    <<"WARSAW", "Poland">>,
    <<"CHOPIN", "Poland">>,
    <<"KRAKOW", "Poland">>,
    <<"KRAKÓW", "Poland">>,
    <<"JOHN PAUL II", "Poland">>,
    <<"LISBON", "Portugal">>,
    <<"LISBOA", "Portugal">>,
    <<"PORTO", "Portugal">>,
    <<"BRATISLAVA", "Slovakia">>,
    <<"LJUBLJANA", "Slovenia">>,
    <<"JOÝE PUÇNIK", "Slovenia">>,
    <<"STOCKHOLM", "Sweden">>,
    <<"ARLANDA", "Sweden">>,
    <<"GOTHENBURG", "Sweden">>,
    <<"LANDVETTER", "Sweden">>,
    <<"ZURICH", "Switzerland">>,
    <<"ZÜRICH", "Switzerland">>,
    <<"GENEVA", "Switzerland">>,
    <<"GENÈVE", "Switzerland">>,
    <<"BEIJING", "China">>,
    <<"SHANGHAI", "China">>,
    <<"GUANGZHOU", "China">>,
    <<"ATLANTA", "United States of America">>,
    <<"LOS ANGELES", "United States of America">>,
    <<"CHICAGO", "United States of America">>,
    <<"DALLAS", "United States of America">>,
    <<"FORT WORTH", "United States of America">>,
    <<"DENVER", "United States of America">>,
    <<"NEW YORK", "United States of America">>,
    <<"KENNEDY", "United States of America">>
>>

AIRPORT_KEYWORDS == <<"AIRPORT", "AEROPORTO", "AEROPORT", "FLUGHAFEN",
                      "LUFTHAVN", "INTERNATIONAL", "TERMINAL", "INTL">>

\* The characters that may stand on either side of a country code.
CodeBoundary == WhiteSpace \cup {":"}

\* /(?:^|\s|:)([A-Z]{2})(?:\s|:|$)/ matches with its group starting at g.
CodeMatchAt(t, g) ==
    /\ g + 1 <= Len(t)
    /\ charAt(t, g) \in AZ
    /\ charAt(t, g + 1) \in AZ
    /\ (g = 1 \/ charAt(t, g - 1) \in CodeBoundary)
    /\ (g + 2 > Len(t) \/ charAt(t, g + 2) \in CodeBoundary)

\* normalizedText.match(...) without the g flag: group 1 of the leftmost
\* match, "" when there is no match.
countryCodeMatch(t) ==
    LET gs == {g \in 1..Len(t) : CodeMatchAt(t, g)}
    IN  IF gs = {} THEN ""
        ELSE LET first == CHOOSE g \in gs : \A h \in gs : g <= h
             IN  SubSeq(t, first, first + 1)

\* Variant: the last entry of cityMapping that the text includes.
CityMatch_Last(normalizedText) ==
    LET hits == {i \in 1..Len(cityMapping) :
                    includes(normalizedText, cityMapping[i][1])}
    IN  IF hits = {} THEN 0 ELSE CHOOSE i \in hits : \A j \in hits : i >= j

\* for (const [city, country] of Object.entries(cityMapping)): the first
\* entry whose city the text includes, 0 when there is none.
CityMatch(normalizedText) ==
    FirstIndex(cityMapping, LAMBDA e : includes(normalizedText, e[1]))

detectCountry(text) ==
    Bind(normalizeText(text), LAMBDA normalizedText :
    Bind(countryCodeMatch(normalizedText), LAMBDA code :
    LET countryData ==
            IF code = "" THEN 0
            ELSE FirstIndex(COUNTRY_AIRPORTS,
                            LAMBDA data : ArrayIncludes(data.codes, code))
        city == CityMatch(normalizedText)
        named == FirstIndex(COUNTRY_AIRPORTS,
                            LAMBDA data : includes(normalizedText,
                                                   toUpperCase(data.name)))
    IN  IF countryData > 0
        THEN [country |-> COUNTRY_AIRPORTS[countryData].name, confidence |-> 95]
        ELSE IF city > 0
        THEN [country |-> cityMapping[city][2], confidence |-> 90]
        ELSE IF named > 0
        THEN [country |-> COUNTRY_AIRPORTS[named].name, confidence |-> 80]
        ELSE [country |-> "India", confidence |-> 50]))

\* The rest of detectAirport, for a country of the table.
AirportOf(airports, normalizedBlocks, combinedText) ==
    LET found == FirstIndex(airports,
                            LAMBDA a : SomeIncluded(combinedText, a.codes))
        keyword == FirstIndex(normalizedBlocks,
                              LAMBDA block : SomeIncluded(block, AIRPORT_KEYWORDS))
    IN  IF found > 0
        THEN LET codes == airports[found].codes
                 airportNameMatch ==
                     toUpperCase(codes[FirstIndex(codes,
                         LAMBDA code : includes(combinedText, code))])
             IN  [airport |-> IF includes(airportNameMatch, "AIRPORT")
                              THEN airportNameMatch
                              ELSE airportNameMatch \o " AIRPORT",
                  confidence |-> 90]
        ELSE IF keyword > 0
        THEN IF Len(airports) > 0
             THEN [airport |-> airports[1].name, confidence |-> 70]
             ELSE [airport |-> normalizedBlocks[keyword], confidence |-> 60]
        ELSE IF Len(airports) > 0
        THEN [airport |-> airports[1].name, confidence |-> 50]
        ELSE [airport |-> "Unknown International Airport", confidence |-> 30]

detectAirport(blocks, country) ==
    Bind([i \in 1..Len(blocks) |-> normalizeText(blocks[i])],
         LAMBDA normalizedBlocks :
    Bind(join(normalizedBlocks, " "), LAMBDA combinedText :
    Bind(country, LAMBDA name :
    LET countryData == FirstIndex(COUNTRY_AIRPORTS,
                                  LAMBDA data : data.name = name)
    IN  IF countryData = 0
        THEN [airport |-> "Unknown International Airport", confidence |-> 30]
        ELSE AirportOf(COUNTRY_AIRPORTS[countryData].airports,
                       normalizedBlocks, combinedText))))

arrivalKeywords == <<"ARRIVAL", "IMMIGRATION IN", "ENTRY", "ADMITTED",
                     "ENTRADA", "IN", "ENTRÉE", "EINREISE">>
departureKeywords == <<"DEPARTURE", "IMMIGRATION OUT", "EXIT", "LEFT",
                       "SALIDA", "OUT", "SORTIE", "AUSREISE", "DEPARTED">>
leftArrowSymbols == <<"←", "⇐", "<-", "<=">>
rightArrowSymbols == <<"→", "⇒", "->", "=>">>

\* arrowPatterns: the one character each pattern cannot match without
\* (/<[-=]*/ needs "<", /[-=]*>/ needs ">", /\[?←\]?/ needs the arrow).
arrowPatternsDeparture == <<"<", ">", "→", "⇒">>
arrowPatternsArrival == <<">", "<", "←", "⇐">>

\* Variant: the arrival keywords are looked for first.
KeywordType_ArrivalFirst(normalizedText) ==
    IF SomeIncluded(normalizedText, arrivalKeywords) THEN "ARRIVAL"
    ELSE IF SomeIncluded(normalizedText, departureKeywords) THEN "DEPARTURE"
    ELSE "ARRIVAL"

\* The keyword fallback: the departure keywords, then the arrival keywords,
\* then the default.
KeywordType(normalizedText) ==
    IF SomeIncluded(normalizedText, departureKeywords) THEN "DEPARTURE"
    ELSE IF SomeIncluded(normalizedText, arrivalKeywords) THEN "ARRIVAL"
    ELSE "ARRIVAL"

detectStampType(text, blocks) ==
    Bind(normalizeText(text), LAMBDA normalizedText :
    Bind([i \in 1..Len(blocks) |-> normalizeText(blocks[i])],
         LAMBDA normalizedBlock :
    LET arrowBlock == FirstIndex(normalizedBlock,
            LAMBDA block : \/ SomeIncluded(block, arrowPatternsDeparture)
                           \/ SomeIncluded(block, arrowPatternsArrival))
    IN  IF SomeIncluded(normalizedText, leftArrowSymbols) THEN "ARRIVAL"
        ELSE IF SomeIncluded(normalizedText, rightArrowSymbols) THEN "DEPARTURE"
        ELSE IF arrowBlock > 0
        THEN IF SomeIncluded(normalizedBlock[arrowBlock], arrowPatternsDeparture)
             THEN "DEPARTURE" ELSE "ARRIVAL"
        ELSE KeywordType(normalizedText)))


\* The value of a decimal digit, and of a string of decimal digits.
DigitValues == [c \in Digit |-> indexOfChar(DigitChars, c) - 1]

digitValue(c) == DigitValues[c]

RECURSIVE DecimalValue(_)
DecimalValue(s) ==
    IF Len(s) = 0 THEN 0
    ELSE DecimalValue(SubSeq(s, 1, Len(s) - 1)) * 10 + digitValue(charAt(s, Len(s)))

\* Number.prototype.toString of a natural number.
RECURSIVE toString(_)
toString(n) ==
    IF n < 10 THEN charAt(DigitChars, n + 1)
    ELSE toString(n \div 10) \o charAt(DigitChars, (n % 10) + 1)

\* addLeadingZeros of date-fns
addLeadingZeros(n, targetLength) ==
    LET digits == toString(n)
    IN  SubSeq("0000", 1, targetLength - Len(digits)) \o digits

\* format(date, 'dd/MM/yyyy')
format(date) ==
    addLeadingZeros(date.day, 2) \o "/" \o addLeadingZeros(date.month, 2)
        \o "/" \o addLeadingZeros(date.year, 4)

\* A number that is not one; the numbers read from a page are not negative.
NaN == -1

AllIn(s, from, to, class) ==
    /\ to <= Len(s)
    /\ \A i \in from..to : charAt(s, i) \in class

\* Number(s) for the strings /\d{1,2}|\w{3}/ and /\d{2,4}/ capture: decimal
\* digits, a hexadecimal, binary or octal literal, or digit-e-digit.
Number(s) ==
    LET a == charAt(s, 1)
        b == toUpperChar(charAt(s, 2))
        c == toUpperChar(charAt(s, 3))
    IN  IF AllIn(s, 1, Len(s), Digit) THEN DecimalValue(s)
        ELSE IF Len(s) # 3 THEN NaN
        ELSE IF a = "0" /\ b = "X" /\ c \in CharsOf("0123456789ABCDEF")
        THEN indexOfChar("0123456789ABCDEF", c) - 1
        ELSE IF a = "0" /\ b = "B" /\ c \in {"0", "1"} THEN digitValue(c)
        ELSE IF a = "0" /\ b = "O" /\ c \in CharsOf("01234567") THEN digitValue(c)
        ELSE IF a \in Digit /\ b = "E" /\ c \in Digit
        THEN digitValue(a) * (10 ^ digitValue(c))
        ELSE NaN

monthAbbreviated == <<"JAN", "FEB", "MAR", "APR", "MAY", "JUN",
                      "JUL", "AUG", "SEP", "OCT", "NOV", "DEC">>

\* new Date(Date.parse(`${monthStr} 1, 2000`)).getMonth() + 1 for three word
\* characters that are not a number: the month of an English month
\* abbreviation in either case, NaN for any other word (V8).
MonthOfDateParse(monthStr) ==
    LET m == FirstIndex(monthAbbreviated, LAMBDA name : toUpperCase(monthStr) = name)
    IN  IF m = 0 THEN NaN ELSE m

isLeapYearIndex(year) ==
    year % 400 = 0 \/ (year % 4 = 0 /\ year % 100 # 0)

DAYS_IN_MONTH == <<31, 28, 31, 30, 31, 30, 31, 31, 30, 31, 30, 31>>
DAYS_IN_MONTH_LEAP_YEAR == <<31, 29, 31, 30, 31, 30, 31, 31, 30, 31, 30, 31>>

\* The length of month 1..12 of a year.
DaysIn(year, month) ==
    IF isLeapYearIndex(year) THEN DAYS_IN_MONTH_LEAP_YEAR[month]
    ELSE DAYS_IN_MONTH[month]

\* The calendar date that is day - 1 days after the first of the month: a
\* day before 1 or past the end of the month rolls into the months around.
RECURSIVE MakeDay(_, _, _)
MakeDay(year, month, day) ==
    IF day < 1
    THEN LET py == IF month = 1 THEN year - 1 ELSE year
             pm == IF month = 1 THEN 12 ELSE month - 1
         IN  MakeDay(py, pm, day + DaysIn(py, pm))
    ELSE IF day > DaysIn(year, month)
    THEN MakeDay(IF month = 12 THEN year + 1 ELSE year,
                 IF month = 12 THEN 1 ELSE month + 1,
                 day - DaysIn(year, month))
    ELSE [valid |-> TRUE, year |-> year, month |-> month, day |-> day]

\* new Date(year, monthIndex, day): a year 0..99 means 1900 + year, a month
\* index outside 0..11 rolls into the years around.
NewDate(year, monthIndex, day) ==
    LET y == IF year \in 0..99 THEN 1900 + year ELSE year
    IN  MakeDay(y + (monthIndex \div 12), (monthIndex % 12) + 1, day)

InvalidDate == [valid |-> FALSE, year |-> 0, month |-> 0, day |-> 0]

\* The alternatives of /(\d{1,2})[.\s/-](\d{1,2}|\w{3})[.\s/-](\d{2,4})/i in
\* the order the matcher tries them at one start position: the lengths of
\* the day, of the month and of the year, and the class of the month.
DateAlternatives ==
    LET days == <<2, 1>>
        months == <<[len |-> 2, class |-> Digit], [len |-> 1, class |-> Digit],
                    [len |-> 3, class |-> Word]>>
        years == <<4, 3, 2>>
    IN  [k \in 1..18 |->
            [day |-> days[((k - 1) \div 9) + 1],
             month |-> months[(((k - 1) \div 3) % 3) + 1],
             year |-> years[((k - 1) % 3) + 1]]]

DateSeparator == WhiteSpace \cup {".", "/", "-"}

DateMatchAt(s, p, alt) ==
    LET m == p + alt.day + 1
        y == m + alt.month.len + 1
    IN  /\ y + alt.year - 1 <= Len(s)
        /\ AllIn(s, p, p + alt.day - 1, Digit)
        /\ charAt(s, m - 1) \in DateSeparator
        /\ AllIn(s, m, m + alt.month.len - 1, alt.month.class)
        /\ charAt(s, y - 1) \in DateSeparator
        /\ AllIn(s, y, y + alt.year - 1, Digit)

\* s.match(dateRegex): the leftmost match, and at that position the first
\* alternative that matches.
dateRegex(s) ==
    Bind({h \in (1..Len(s)) \X (1..18) :
             DateMatchAt(s, h[1], DateAlternatives[h[2]])}, LAMBDA hits :
    IF hits = {}
    THEN [found |-> FALSE, day |-> "", monthStr |-> "", year |-> ""]
    ELSE Bind(CHOOSE h \in hits : \A g \in hits :
                  h[1] < g[1] \/ (h[1] = g[1] /\ h[2] <= g[2]), LAMBDA first :
         LET p == first[1]
             alt == DateAlternatives[first[2]]
             m == p + alt.day + 1
             y == m + alt.month.len + 1
         IN  [found |-> TRUE,
              day |-> SubSeq(s, p, p + alt.day - 1),
              monthStr |-> SubSeq(s, m, m + alt.month.len - 1),
              year |-> SubSeq(s, y, y + alt.year - 1)]))

\* /DD.MM.YY/ matches somewhere in s.
dateRegex1(s) ==
    \E p \in 1..(Len(s) - 7) :
        /\ SubSeq(s, p, p + 1) = "DD"
        /\ charAt(s, p + 2) \notin LineTerminator
        /\ SubSeq(s, p + 3, p + 4) = "MM"
        /\ charAt(s, p + 5) \notin LineTerminator
        /\ SubSeq(s, p + 6, p + 7) = "YY"

dateFormats == <<"dd.MM.yy", "dd.MM.yyyy", "dd MMM yyyy",
                 "dd-MM-yy", "dd-MM-yyyy", "dd MMM yy",
                 "yyyy-MM-dd", "yyyy.MM.dd", "dd-MMM-yyyy",
                 "dd-MMM-yy", "MM.dd.yyyy">>

\* The tokens of a date-fns format: a run of one letter, or one character.
RECURSIVE TokensFrom(_, _)
TokensFrom(fmt, i) ==
    IF i > Len(fmt) THEN <<>>
    ELSE LET c == charAt(fmt, i)
             n == IF c \notin Word THEN 1
                  ELSE CHOOSE n \in 1..(Len(fmt) - i + 1) :
                         /\ \A k \in i..(i + n - 1) : charAt(fmt, k) = c
                         /\ (i + n > Len(fmt) \/ charAt(fmt, i + n) # c)
         IN  <<SubSeq(fmt, i, i + n - 1)>> \o TokensFrom(fmt, i + n)

dateFormatTokens == [k \in 1..Len(dateFormats) |-> TokensFrom(dateFormats[k], 1)]

\* parseNDigits(n, dateString) of date-fns: how many characters /^\d{1,n}/
\* matches at pos, 0 when it does not match.
parseNDigits(n, s, pos) ==
    CHOOSE k \in 0..n :
        /\ (k > 0 => AllIn(s, pos, pos + k - 1, Digit))
        /\ (k = n \/ ~AllIn(s, pos, pos + k, Digit))

\* match.month of the en-US locale, width abbreviated and then narrow: the
\* month index 0..11 and the matched length, len 0 when neither matches.
matchMonth(s, pos) ==
    LET abbr == IF pos + 2 <= Len(s)
                THEN FirstIndex(monthAbbreviated,
                         LAMBDA name : toUpperCase(SubSeq(s, pos, pos + 2)) = name)
                ELSE 0
        narrow == IF pos <= Len(s)
                  THEN indexOfChar("JFMASOND", toUpperChar(charAt(s, pos)))
                  ELSE 0
    IN  IF abbr > 0 THEN [value |-> abbr - 1, len |-> 3]
        ELSE IF narrow > 0
        THEN [value |-> <<0, 1, 2, 3, 8, 9, 10, 11>>[narrow], len |-> 1]
        ELSE [value |-> 0, len |-> 0]

\* One token of the format applied to the rest of the string.
RunParser(token, s, p) ==
    LET c == charAt(token, 1)
        n == parseNDigits(Len(token), s, p.pos)
        v == DecimalValue(SubSeq(s, p.pos, p.pos + n - 1))
        mm == matchMonth(s, p.pos)
    IN  IF ~p.ok THEN p
        ELSE IF c = "y"
        THEN IF n = 0 THEN [p EXCEPT !.ok = FALSE]
             ELSE [p EXCEPT !.pos = @ + n, !.year = v,
                            !.isTwoDigitYear = (token = "yy")]
        ELSE IF c = "M" /\ Len(token) = 2
        THEN IF n = 0 THEN [p EXCEPT !.ok = FALSE]
             ELSE [p EXCEPT !.pos = @ + n, !.month = v - 1]
        ELSE IF c = "M"
        THEN IF mm.len = 0 THEN [p EXCEPT !.ok = FALSE]
             ELSE [p EXCEPT !.pos = @ + mm.len, !.month = mm.value]
        ELSE IF c = "d"
        THEN IF n = 0 THEN [p EXCEPT !.ok = FALSE]
             ELSE [p EXCEPT !.pos = @ + n, !.day = v]
        ELSE IF p.pos <= Len(s) /\ charAt(s, p.pos) = token
        THEN [p EXCEPT !.pos = @ + 1]
        ELSE [p EXCEPT !.ok = FALSE]

RECURSIVE RunParsers(_, _, _)
RunParsers(tokens, s, p) ==
    IF Len(tokens) = 0 THEN p
    ELSE Bind(RunParser(Head(tokens), s, p),
              LAMBDA rest : RunParsers(Tail(tokens), s, rest))

normalizeTwoDigitYear(twoDigitYear, year) ==
    IF year <= 50 THEN (IF twoDigitYear = 0 THEN 100 ELSE twoDigitYear)
    ELSE LET rangeEnd == year + 50
             rangeEndCentury == (rangeEnd \div 100) * 100
             isPreviousCentury == twoDigitYear >= rangeEnd % 100
         IN  twoDigitYear + rangeEndCentury
                 - (IF isPreviousCentury THEN 100 ELSE 0)

\* parse(dateStr, dateFormats[fmt], new Date()) of date-fns 4: the whole
\* string has to fit the format up to trailing white space, then the year,
\* the month and the day are validated and set in that order.
parse(dateStr, fmt, referenceYear) ==
    Bind(RunParsers(dateFormatTokens[fmt], dateStr,
                    [ok |-> TRUE, pos |-> 1, year |-> 0,
                     isTwoDigitYear |-> FALSE, month |-> 0, day |-> 0]),
         LAMBDA p :
    LET year == IF p.isTwoDigitYear
                THEN normalizeTwoDigitYear(p.year, referenceYear)
                ELSE p.year
    IN  IF ~p.ok THEN InvalidDate
        ELSE IF \E i \in p.pos..Len(dateStr) : charAt(dateStr, i) \notin WhiteSpace
        THEN InvalidDate
        ELSE IF ~(p.isTwoDigitYear \/ p.year > 0) THEN InvalidDate
        ELSE IF ~(p.month >= 0 /\ p.month <= 11) THEN InvalidDate
        ELSE IF ~(p.day >= 1 /\ p.day <= DaysIn(year, p.month + 1)) THEN InvalidDate
        ELSE [valid |-> TRUE, year |-> year, month |-> p.month + 1, day |-> p.day])

\* The loop over dateFormats from format k on: the first format that gives
\* a valid date, 0 when none does.
RECURSIVE FirstFormat(_, _)
FirstFormat(dateStr, k) ==
    IF k > Len(dateFormats) THEN 0
    ELSE IF parse(dateStr, k, currentYear).valid THEN k
    ELSE FirstFormat(dateStr, k + 1)

\* The fallback of formatDate on the match of the date pattern.
FormatMatch(match) ==
    LET month == IF Number(match.monthStr) = NaN
                 THEN MonthOfDateParse(match.monthStr)
                 ELSE Number(match.monthStr)
        fullYear == IF Len(match.year) = 2 THEN "20" \o match.year
                    ELSE match.year
    IN  IF ~match.found THEN ""
        ELSE IF month = NaN THEN ""
        ELSE format(NewDate(Number(fullYear), month - 1, Number(match.day)))

formatDate(dateStr) ==
    IF dateStr = "" THEN ""
    ELSE Bind(FirstFormat(dateStr, 1), LAMBDA fmt :
         IF fmt > 0 THEN format(parse(dateStr, fmt, currentYear))
         ELSE Bind(dateRegex(dateStr), LAMBDA match : FormatMatch(match)))

\* block.match(dateRegex) || block.match(dateRegex1)
dateMatch(block) == dateRegex(block).found \/ dateRegex1(block)

\* The blocks i-3 .. i+2 of the page that exist, i counted from 0.
RECURSIVE descriptionBlocks(_, _, _)
descriptionBlocks(blocks, j, end) ==
    IF j < end THEN <<blocks[j + 1]>> \o descriptionBlocks(blocks, j + 1, end)
    ELSE <<>>

SlNoIncrement_Stuck(slNo) == slNo

\* slNo++
SlNoIncrement(slNo) == slNo + 1

\* Variant: the larger of the two confidences.
EntryConfidence_Max(countryResult, airportResult) ==
    Max(countryResult.confidence, airportResult.confidence)

\* Math.min(countryResult.confidence, airportResult.confidence)
EntryConfidence(countryResult, airportResult) ==
    Min(countryResult.confidence, airportResult.confidence)

\* Variant: the country is resolved over the description window.
Entry_WindowCountry(text, blocks, i, slNo) ==
    Bind(join(descriptionBlocks(blocks, Max(0, i - 3),
                                Min(Len(blocks), i + 3)), "\n"),
         LAMBDA description :
    Bind(detectCountry(description), LAMBDA countryResult :
    Bind(detectAirport(blocks, countryResult.country), LAMBDA airportResult :
        [Sl_no |-> toString(slNo),
         Country |-> countryResult.country,
         Airport_Name_with_location |-> airportResult.airport,
         Arrival_Departure |-> detectStampType(description, blocks),
         Date |-> formatDate(blocks[i + 1]),
         Description |-> description,
         confidence |-> EntryConfidence(countryResult, airportResult)])))

\* One candidate: the entry pushed for the date-like block i.
Entry(text, blocks, i, slNo) ==
    Bind(detectCountry(text), LAMBDA countryResult :
    Bind(detectAirport(blocks, countryResult.country), LAMBDA airportResult :
    Bind(join(descriptionBlocks(blocks, Max(0, i - 3),
                                Min(Len(blocks), i + 3)), "\n"),
         LAMBDA description :
        [Sl_no |-> toString(slNo),
         Country |-> countryResult.country,
         Airport_Name_with_location |-> airportResult.airport,
         Arrival_Departure |-> detectStampType(description, blocks),
         Date |-> formatDate(blocks[i + 1]),
         Description |-> description,
         confidence |-> EntryConfidence(countryResult, airportResult)])))

\* The loop of parseStamp from block i (counted from 0) on.
RECURSIVE ParseLoop(_, _, _, _, _)
ParseLoop(text, blocks, i, slNo, out) ==
    IF ~(i < Len(blocks)) THEN out
    ELSE IF dateMatch(blocks[i + 1])
    THEN Bind(Append(out, Entry(text, blocks, i, slNo)), LAMBDA pushed :
         Bind(SlNoIncrement(slNo), LAMBDA next :
              ParseLoop(text, blocks, i + 1, next, pushed)))
    ELSE ParseLoop(text, blocks, i + 1, slNo, out)

\* text.split('\n').filter(block => block.trim().length > 0)
Blocks(text) == SelectSeq(split(text, "\n"), LAMBDA block : Len(trim(block)) > 0)

parseStamp(annotations) ==
    IF Len(annotations) = 0 THEN <<>>
    ELSE Bind(annotations[1].description, LAMBDA text :
         Bind(Blocks(text), LAMBDA blocks :
              ParseLoop(text, blocks, 0, 1, <<>>)))


(***************************************************************************)
(* The page functions applied to a page: one function is applied to the    *)
(* page a behaviour starts with.                                           *)
(***************************************************************************)
\* The lines a page is made of: dates that parse, the date placeholder, a
\* date inside a longer line, country codes in either case (the one in
\* lower case of a country without airports), a two-letter word that is no
\* code, a city, and a line the block filter drops.
Lines == {"12.03.24", "DD.MM.YY", "ENTRY 31.02.2024", "HR", "li", "ON",
          "OUT: HR", "ZAGREB", " "}

LineLists == UNION {[1..n -> Lines] : n \in 0..MaxLines}

\* The years in which the controller runs.
CurrentYears == {2024, 2026}

\* textAnnotations[0]?.description || ''
PageText ==
    IF Len(textAnnotations) = 0 THEN "" ELSE textAnnotations[1].description

NoCountry == [country |-> "", confidence |-> 0]

ParseStamp ==
    /\ ran = ""
    /\ entries' = parseStamp(textAnnotations)
    /\ ran' = "parseStamp"
    /\ UNCHANGED <<textAnnotations, currentYear, countryFound, arg, returned,
                   geoVars>>

DetectCountry ==
    /\ ran = ""
    /\ countryFound' = detectCountry(PageText)
    /\ ran' = "detectCountry"
    /\ UNCHANGED <<textAnnotations, currentYear, entries, arg, returned,
                   geoVars>>

PageInit ==
    /\ textAnnotations \in
          {<<>>} \cup {<<[description |-> join(ls, "\n")]>> : ls \in LineLists}
    /\ currentYear \in CurrentYears
    /\ ran = ""
    /\ entries = <<>>
    /\ countryFound = NoCountry
    /\ arg = <<>>
    /\ returned = <<>>
    /\ redisOn = FALSE
    /\ GeoInit

NextPage ==
    \/ ParseStamp
    \/ DetectCountry

SpecPage == PageInit /\ [][NextPage]_vars

\* Pages long enough for the description window of a candidate to be cut
\* on either side: up to MaxPageBlocks lines, each a date, a country code or
\* a keyword.
WindowLines == {"12.03.24", "HR", "EXIT"}

WindowInit ==
    /\ textAnnotations \in
          {<<[description |-> join(ls, "\n")]>> :
              ls \in UNION {[1..n -> WindowLines] : n \in 0..MaxPageBlocks}}
    /\ currentYear = 2026
    /\ ran = ""
    /\ entries = <<>>
    /\ countryFound = NoCountry
    /\ arg = <<>>
    /\ returned = <<>>
    /\ redisOn = FALSE
    /\ GeoInit

SpecWindow == WindowInit /\ [][ParseStamp]_vars

\* Pages of up to MaxWords words on one line: cities of two countries (the
\* one declared later in cityMapping first), country names in either case,
\* a name inside a longer word, a two-letter token that is no code, a
\* country code and a date.
CountryWords == {"ZAGREB", "Paris", "Croatia", "FRANCE", "Indiana", "xx",
                 "HR", "12.03.24"}

CountryInit ==
    /\ textAnnotations \in
          {<<[description |-> join(ws, " ")]>> :
              ws \in UNION {[1..n -> CountryWords] : n \in 0..MaxWords}}
    /\ currentYear = 2026
    /\ ran = ""
    /\ entries = <<>>
    /\ countryFound = NoCountry
    /\ arg = <<>>
    /\ returned = <<>>
    /\ redisOn = FALSE
    /\ GeoInit

SpecCountry == CountryInit /\ [][DetectCountry]_vars

(***************************************************************************)
(* A function applied on its own: its arguments are drawn at the start and *)
(* no page is read.                                                        *)
(***************************************************************************)
CallInit(args, years) ==
    /\ arg \in args
    /\ returned = <<>>
    /\ textAnnotations = <<>>
    /\ currentYear \in years
    /\ ran = ""
    /\ entries = <<>>
    /\ countryFound = NoCountry
    /\ redisOn = FALSE
    /\ GeoInit

\* The function named fn is applied to arg and returns value.
Return(fn, value) == \E v \in {value} :
    /\ ran = ""
    /\ returned' = v
    /\ ran' = fn
    /\ UNCHANGED <<textAnnotations, currentYear, entries, countryFound, arg,
                   geoVars>>

\* detectAirport: blocks with the first and a later code of an airport, a
\* short code of another airport, a name in mixed case, an airport keyword
\* and a country code; countries with airports, with none, and unknown.
AirportBlocks == {"SPLIT", "SPU", "ZAG", "Zagreb airport", "TERMINAL 1", "HR"}

AirportBlockLists == UNION {[1..n -> AirportBlocks] : n \in 0..MaxBlocks}

AirportCountries == {"Croatia", "India", "Liechtenstein", "Atlantis"}

DetectAirport == Return("detectAirport", detectAirport(arg.blocks, arg.country))

AirportInit ==
    CallInit([blocks : AirportBlockLists, country : AirportCountries], {2026})

SpecAirport == AirportInit /\ [][DetectAirport]_vars

\* detectStampType: texts with an arrival keyword, a departure keyword,
\* both, a keyword inside a longer word, a keyword in lower case, none, an
\* arrow of ASCII characters, an arrow glyph, and an accented keyword.
StampTexts == {"IN", "EXIT", "IN OUT", "ENTRY 12.03.24\nDEPARTED", "POINT",
               "left", "STAMP 7", "-> HR", "← SORTIE", "ENTRÉE"}

StampBlockLists == UNION {[1..n -> StampTexts] : n \in 0..MaxBlocks}

DetectStampType ==
    Return("detectStampType", detectStampType(arg.text, arg.blocks))

StampTypeInit == CallInit([text : StampTexts, blocks : StampBlockLists], {2026})

SpecStampType == StampTypeInit /\ [][DetectStampType]_vars

\* formatDate: raw dates day.month.year with a two-digit year, the day and
\* the month with and without a leading zero.
DateDays == {"01", "5", "15", "29", "31"}

DateMonths == {"2", "03", "12"}

DateYears == {"00", "24", "49", "75", "76", "99"}

DateString(parts) == parts.day \o "." \o parts.month \o "." \o parts.year

FormatDate == Return("formatDate", formatDate(DateString(arg)))

DateInit ==
    CallInit([day : DateDays, month : DateMonths, year : DateYears],
             CurrentYears)

SpecDate == DateInit /\ [][FormatDate]_vars

\* normalizeText: the strings of at most MaxLen characters over letters of
\* both cases, a digit, the underscore, three kinds of white space, the
\* comma, the period, the hyphen, and two characters that are stripped.
TextAlphabet == {"a", "Z", "7", "_", " ", "\t", "\n", ",", ".", "-", "<", "é"}

RECURSIVE Texts(_)
Texts(n) ==
    IF n = 0 THEN {""}
    ELSE Texts(n - 1) \cup {s \o c : s \in Texts(n - 1), c \in TextAlphabet}

NormalizeText == Return("normalizeText", normalizeText(arg))

TextInit == CallInit(Texts(MaxLen), {2026})

SpecText == TextInit /\ [][NormalizeText]_vars

(***************************************************************************)
(* uploadPassportPage of the controller that crops the stamp images: its   *)
(* parseStamp gives every entry the bounding polygon of the page and a     *)
(* stamp id.  Lengths in pixels are held in hundredths where the padding    *)
(* is applied.                                                             *)
(***************************************************************************)
\* parseStamp of that controller, from block i (counted from 0) on.
RECURSIVE ParseLoopBoxed(_, _, _, _, _, _)
ParseLoopBoxed(annotations, text, blocks, i, slNo, out) ==
    IF ~(i < Len(blocks)) THEN out
    ELSE IF ~dateMatch(blocks[i + 1])
    THEN ParseLoopBoxed(annotations, text, blocks, i + 1, slNo, out)
    ELSE IF "boundingPoly" \notin DOMAIN annotations[1]
    THEN \* continue
         ParseLoopBoxed(annotations, text, blocks, i + 1, slNo, out)
    ELSE Bind(Append(out, Entry(text, blocks, i, slNo)
                            @@ [boundingBox |-> annotations[1].boundingPoly,
                                stampId |-> "uuid" \o toString(i)]),
              LAMBDA pushed :
                 ParseLoopBoxed(annotations, text, blocks, i + 1,
                                SlNoIncrement(slNo), pushed))

parseStampBoxed(annotations) ==
    IF Len(annotations) = 0 THEN <<>>
    ELSE Bind(annotations[1].description, LAMBDA text :
         Bind(Blocks(text), LAMBDA blocks :
              ParseLoopBoxed(annotations, text, blocks, 0, 1, <<>>)))

paddingPercent == 15

\* v.x || 0
Coordinate(v, axis) == IF axis \in DOMAIN v THEN v[axis] ELSE 0

MinOf(S) == CHOOSE x \in S : \A y \in S : x <= y

MaxOf(S) == CHOOSE x \in S : \A y \in S : x >= y

\* The padded and clamped box, in hundredths of a pixel.
PaddedBox(image, vertices) ==
    LET xCoordinates == {Coordinate(vertices[k], "x") : k \in 1..Len(vertices)}
        yCoordinates == {Coordinate(vertices[k], "y") : k \in 1..Len(vertices)}
        width == MaxOf(xCoordinates) - MinOf(xCoordinates)
        height == MaxOf(yCoordinates) - MinOf(yCoordinates)
        paddingX == width * paddingPercent
        paddingY == height * paddingPercent
    IN  [minX |-> Max(0, 100 * MinOf(xCoordinates) - paddingX),
         maxX |-> Min(100 * image.width, 100 * MaxOf(xCoordinates) + paddingX),
         minY |-> Max(0, 100 * MinOf(yCoordinates) - paddingY),
         maxY |-> Min(100 * image.height, 100 * MaxOf(yCoordinates) + paddingY)]

\* The bounding box cropAndSaveStamp refuses.
InvalidBox(image, boundingBox) ==
    \/ "vertices" \notin DOMAIN boundingBox
    \/ Len(boundingBox.vertices) # 4
    \/ LET box == PaddedBox(image, boundingBox.vertices)
       IN  box.minX >= box.maxX \/ box.minY >= box.maxY

\* cropAndSaveStamp || '': the path of the saved image, "" for null; io
\* tells whether Image.load and save work.
cropAndSaveStamp(image, boundingBox, stampId, io) ==
    IF io = "load fails" THEN ""
    ELSE IF InvalidBox(image, boundingBox) THEN ""
    ELSE IF io = "save fails" THEN ""
    ELSE "/uploads/stamps/" \o stampId \o ".jpg"

\* Math.floor and Math.ceil of a length held in hundredths.
floor(h) == h \div 100

ceil(h) == (h + 99) \div 100

\* The argument of image.crop for a padded and clamped box.
CropOptions(box) ==
    [x |-> floor(box.minX), y |-> floor(box.minY),
     width |-> ceil(box.maxX - box.minX),
     height |-> ceil(box.maxY - box.minY)]

\* What one call of cropAndSaveStamp does: whether it returns null, the
\* path it returns otherwise, and the rectangle it hands to image.crop
\* (crop.called tells whether it gets that far).
CropAndSave(image, boundingBox, stampId, io) ==
    [path |-> cropAndSaveStamp(image, boundingBox, stampId, io),
     null |-> cropAndSaveStamp(image, boundingBox, stampId, io) = "",
     called |-> io # "load fails" /\ ~InvalidBox(image, boundingBox),
     crop |-> IF io # "load fails" /\ ~InvalidBox(image, boundingBox)
              THEN CropOptions(PaddedBox(image, boundingBox.vertices))
              ELSE [x |-> 0, y |-> 0, width |-> 0, height |-> 0]]

\* The loop over parsedStamps.
RECURSIVE PassportEntries(_, _, _, _)
PassportEntries(image, parsedStamps, io, k) ==
    IF k > Len(parsedStamps) THEN <<>>
    ELSE Bind(cropAndSaveStamp(image, parsedStamps[k].boundingBox,
                               parsedStamps[k].stampId, io[k]),
              LAMBDA stampImagePath :
         Bind(PassportEntries(image, parsedStamps, io, k + 1), LAMBDA rest :
              <<parsedStamps[k] @@ [StampImage |-> stampImagePath]>>
                  \o rest))

\* The handler: vision and unlink tell whether textDetection and
\* fs.unlinkSync work.
uploadPassportPage(request, annotations, vision, io, unlink) ==
    IF ~request.file
    THEN [status |-> 400, message |-> "No file uploaded", body |-> <<>>]
    ELSE IF ~vision THEN [status |-> 200, message |-> "", body |-> <<>>]
    ELSE Bind(PassportEntries(request.image, parseStampBoxed(annotations),
                              io, 1),
              LAMBDA passportEntries :
                 IF ~unlink
                 THEN [status |-> 200, message |-> "", body |-> <<>>]
                 ELSE [status |-> 200, message |-> "",
                       body |-> passportEntries])

\* The pages of the upload: texts with one, two and no date-like block.
UploadTexts == {"12.03.24", "HR\n12.03.24\nDD.MM.YY", "ZAGREB"}

\* The bounding polygons: a box inside the image, a box whose vertices omit
\* the zero coordinates, polygons of three and of five vertices, a polygon
\* without vertices, a point, a box beyond the image, and a box that
\* reaches beyond it.
Box(x1, y1, x2, y2) ==
    [vertices |-> <<[x |-> x1, y |-> y1], [x |-> x2, y |-> y1],
                    [x |-> x2, y |-> y2], [x |-> x1, y |-> y2]>>]

BoundingPolys ==
    {Box(10, 10, 50, 40),
     [vertices |-> <<[y |-> 5], [x |-> 30, y |-> 5], [x |-> 30], [z |-> 0]>>],
     [vertices |-> <<[x |-> 10, y |-> 10], [x |-> 50, y |-> 10],
                     [x |-> 50, y |-> 40]>>],
     [vertices |-> <<[x |-> 10, y |-> 10], [x |-> 50, y |-> 10],
                     [x |-> 60, y |-> 25], [x |-> 50, y |-> 40],
                     [x |-> 10, y |-> 40]>>],
     [normalizedVertices |-> <<>>],
     Box(20, 20, 20, 20),
     Box(ImageSize - 20, ImageSize - 20, ImageSize + 30, ImageSize + 30),
     Box(ImageSize + 20, 10, ImageSize + 50, 40)}

UploadAnnotations ==
    {<<>>}
    \cup {<<[description |-> t]>> : t \in UploadTexts}
    \cup {<<[description |-> t, boundingPoly |-> b]>> :
              t \in UploadTexts, b \in BoundingPolys}

IoOutcomes == {"ok", "load fails", "save fails"}

UploadPassportPage ==
    \E vision \in BOOLEAN, unlink \in BOOLEAN, io \in [1..2 -> IoOutcomes] :
        Return("uploadPassportPage",
               uploadPassportPage(arg, textAnnotations, vision, io, unlink)
                 @@ [vision |-> vision, unlink |-> unlink])

UploadInit ==
    /\ arg \in [file : BOOLEAN,
                 image : {[width |-> ImageSize, height |-> ImageSize]}]
    /\ textAnnotations \in UploadAnnotations
    /\ (~arg.file => textAnnotations = <<>>)
    /\ returned = <<>>
    /\ currentYear = 2026
    /\ ran = ""
    /\ entries = <<>>
    /\ countryFound = NoCountry
    /\ redisOn = FALSE
    /\ GeoInit

SpecUpload == UploadInit /\ [][UploadPassportPage]_vars

\* cropAndSaveStamp on its own: rectangles whose corners are drawn from
\* CropCoordinates (inside the image, on its edge and beyond it), and the
\* polygons with another number of vertices.
CropCoordinates == {0, 10, 12, 20, ImageSize, ImageSize + 30}

CropPolys ==
    {Box(x1, y1, x2, y2) : x1 \in CropCoordinates, y1 \in {0, 10, ImageSize},
                           x2 \in CropCoordinates, y2 \in {20, 40, ImageSize}}
    \cup {b \in BoundingPolys : "vertices" \in DOMAIN b}

CropAndSaveStamp ==
    \E io \in IoOutcomes :
        Return("cropAndSaveStamp",
               CropAndSave(arg.image, arg.boundingBox, "1", io))

CropInit ==
    CallInit([image : {[width |-> ImageSize, height |-> ImageSize],
                       [width |-> ImageSize, height |-> 30]},
              boundingBox : CropPolys], {2026})

SpecCrop == CropInit /\ [][CropAndSaveStamp]_vars


----------------------------------------------------------------------------
(***************************************************************************)
(* Properties of the GeocodingService.                                     *)
(***************************************************************************)
MaxPos == Max(Max(MaxCalls, MaxBatchNames), MaxQueued)

PosSet == {p \in (DOMAIN req) \X (1..MaxPos) : p[2] \in DOMAIN req[p[1]].pos}

PosOf(p) == req[p[1]].pos[p[2]]

NameOf(p) == req[p[1]].names[p[2]]

\* Two geocodeAirport calls overlap in time.
Concurrent(p, q) ==
    \/ p[1] = q[1]
    \/ p \in req[q[1]].conc
    \/ q \in req[p[1]].conc

Last(seq) == seq[Len(seq)]

\* The lookup ended in the catch clause or in the exhaustion of its retries.
LookupFailed(lk) ==
    \/ lk.cacheErr
    \/ Len(lk.replies) > 0 /\ Last(lk.replies) \in {"429", "error"}

\* C1: two concurrent geocodeAirport calls for a name that both found in
\* neither cache tier are served by one and the same upstream lookup and
\* complete with the same value.
C1_ConcurrentCallsShareOneLookup ==
    \A p \in PosSet, q \in PosSet :
        ( /\ p # q
          /\ NameOf(p) = NameOf(q)
          /\ Concurrent(p, q)
          /\ PosOf(p).st = "done" /\ PosOf(p).miss
          /\ PosOf(q).st = "done" /\ PosOf(q).miss )
        => /\ PosOf(p).lkid = PosOf(q).lkid
           /\ PosOf(p).val = PosOf(q).val

\* C2: at most one processQueue invocation is past its isProcessingQueue
\* guard at any time.
C2_AtMostOneDrain == Cardinality(DOMAIN drain) <= 1

\* A name was queued, and processQueue turned away, while the running drain
\* waits in a backoff.
C2_Witness ==
    /\ Len(requestQueue) > 0
    /\ \E d \in DOMAIN drain : \E i \in DOMAIN drain[d].lk :
          drain[d].lk[i].phase = "backoff"

\* Some geocodeAirport call has not completed or some in-flight entry is
\* registered.
Busy ==
    \/ InProgress(req) # {}
    \/ DOMAIN pendingRequests # {}

\* C3: every geocodeAirport call in progress eventually completes and every
\* in-flight entry is eventually cleared with its waiters released: whenever
\* a call or an entry is outstanding, a state with none outstanding follows.
C3_EveryCallCompletes == Busy ~> ~Busy

\* A waiter that was queued behind a running batch has been released and
\* nothing is left in flight.
C3_Witness ==
    /\ DOMAIN pendingRequests = {}
    /\ DOMAIN drain = {}
    /\ \E n \in Names : lookupCount[n] > 0
    /\ \A n \in Names : lookupCount[n] > 0 => ~Has(memoryCache, n)
    /\ \E p \in PosSet, q \in PosSet :
          /\ NameOf(p) # NameOf(q)
          /\ PosOf(p).st = "done" /\ PosOf(p).miss
          /\ PosOf(q).st = "done" /\ PosOf(q).miss

\* C4: when a lookup of a batch fails, its waiters are released with null,
\* the waiters of every name of the batch are released with that name's own
\* lookup result, and the drain goes on while names are queued.
C4_FailureStaysWithItsName ==
    ( /\ released # <<>>
      /\ \E j \in DOMAIN released.lk : LookupFailed(released.lk[j]) )
    => /\ \A i \in DOMAIN released.batch :
             /\ LookupFailed(released.lk[i]) => released.lk[i].result = Null
             /\ \A k \in DOMAIN released.waiters[i] :
                   /\ PosOf(released.waiters[i][k]).st = "done"
                   /\ PosOf(released.waiters[i][k]).val = released.lk[i].result
       /\ Len(requestQueue) > 0 =>
             \E d \in DOMAIN drain : drain[d].pc = "delay"

\* A batch of two names was released, one lookup failed, the other one
\* returned a result.
C4_Witness ==
    /\ released # <<>>
    /\ Len(released.batch) = 2
    /\ \E i \in 1..2, j \in 1..2 :
          /\ LookupFailed(released.lk[i])
          /\ released.lk[j].result # Null
          /\ released.waiters[i] # <<>>
          /\ released.waiters[j] # <<>>

\* C5: no batchGeocode call and no geocodeAirport call completes with an
\* error.
C5_NeverRejects ==
    \A r \in DOMAIN req :
        /\ req[r].st # "rejected"
        /\ \A i \in DOMAIN req[r].pos : req[r].pos[i].st # "rejected"

\* The history of one geocodeWithRetry invocation.
RetryDiscipline(lk) ==
    /\ lk.reqs <= 3
    /\ Len(lk.replies) \in {lk.reqs - 1, lk.reqs}
    /\ \A k \in 1..(lk.reqs - 1) : lk.replies[k] = "429"
    /\ lk.waits = [k \in 1..(lk.reqs - 1) |-> IF k = 1 THEN 1000 ELSE 2000]
    /\ (lk.phase = "http") <=> (Len(lk.replies) = lk.reqs - 1)
    /\ lk.phase = "backoff" =>
          /\ Last(lk.replies) = "429"
          /\ lk.reqs < 3
          /\ lk.delay = IF lk.reqs = 1 THEN 1000 ELSE 2000
    /\ (lk.phase = "done" /\ lk.reqs = 3 /\ Last(lk.replies) = "429") =>
          lk.result = Null

\* C6: a geocodeWithRetry invocation issues at most 3 HTTP requests, each
\* further request only after a 429, after waits of 1000ms and 2000ms, and a
\* 429 on the third request yields null.
C6_RetryOn429Only ==
    /\ \A d \in DOMAIN drain : \A i \in DOMAIN drain[d].lk :
          RetryDiscipline(drain[d].lk[i])
    /\ released # <<>> =>
          \A i \in DOMAIN released.lk : RetryDiscipline(released.lk[i])

\* A lookup was answered 429 three times and has returned.
C6_Witness ==
    /\ released # <<>>
    /\ \E i \in DOMAIN released.lk :
          /\ released.lk[i].replies = <<"429", "429", "429">>
          /\ released.lk[i].waits = <<1000, 2000>>

\* C7: when the waiters of a name are released after a response with at
\* least one result, they are given that result and both cache tiers hold it.
C7_ResultReleasedAndCached ==
    released # <<>> =>
        \A i \in DOMAIN released.batch :
            released.lk[i].got # Null =>
                /\ \A k \in DOMAIN released.waiters[i] :
                      PosOf(released.waiters[i][k]).val = released.lk[i].got
                /\ Has(memoryCache, released.batch[i])
                /\ memoryCache[released.batch[i]] = released.lk[i].got
                /\ redisOn =>
                      /\ Has(redisStore, released.batch[i])
                      /\ redisStore[released.batch[i]] =
                            [val |-> released.lk[i].got, ex |-> 2592000]

\* C8: a batchGeocode call returns a list as long as its input, element i
\* being the outcome of names[i], equal for equal names.
C8_BatchAligned ==
    \A r \in DOMAIN req :
        req[r].st = "fulfilled" =>
            /\ Len(req[r].ret) = Len(req[r].names)
            /\ \A i \in DOMAIN req[r].pos : req[r].ret[i] = req[r].pos[i].val
            /\ \A i \in DOMAIN req[r].names, j \in DOMAIN req[r].names :
                  req[r].names[i] = req[r].names[j] =>
                      req[r].ret[i] = req[r].ret[j]

----------------------------------------------------------------------------
(***************************************************************************)
(* Properties of the stamp extraction functions.                           *)
(***************************************************************************)
\* The positions (from 1) of the date-like blocks, in block order.
DateLikeBlocks(blocks) ==
    SelectSeq([i \in 1..Len(blocks) |-> i], LAMBDA i : dateMatch(blocks[i]))

\* C9: parseStamp emits exactly one candidate per date-like block of the
\* page, in block order, duplicates and blocks whose formatted date is
\* empty included, and the k-th candidate has Sl_no k.
C9_OneCandidatePerDateLikeBlock ==
    ran = "parseStamp" =>
        LET blocks == Blocks(PageText)
            at == DateLikeBlocks(blocks)
        IN  /\ Len(entries) = Len(at)
            /\ \A k \in 1..Len(entries) :
                  /\ entries[k].Sl_no = toString(k)
                  /\ entries[k].Date = formatDate(blocks[at[k]])
                  /\ entries[k].Description =
                        join(descriptionBlocks(blocks, Max(0, at[k] - 4),
                                               Min(Len(blocks), at[k] + 2)), "\n")

\* parseStamp has run on a page with two adjacent date-like lines, the
\* first of which has no date that formats.
C9_Witness ==
    /\ ran = "parseStamp"
    /\ Len(entries) = 2
    /\ entries[1].Sl_no = "1"
    /\ entries[2].Sl_no = "2"
    /\ entries[1].Date = ""
    /\ entries[2].Date # ""
    /\ LET blocks == Blocks(PageText)
       IN  \E i \in 1..(Len(blocks) - 1) :
              dateMatch(blocks[i]) /\ dateMatch(blocks[i + 1])

\* The two-letter token stands alone in t: start, white space or a colon
\* before it, and white space, a colon or the end after it.
StandaloneToken(t, token) ==
    \E g \in 1..(Len(t) - 1) :
        /\ SubSeq(t, g, g + 1) = token
        /\ (g = 1 \/ charAt(t, g - 1) \in CodeBoundary)
        /\ (g + 2 > Len(t) \/ charAt(t, g + 2) \in CodeBoundary)

\* C10: when the normalized page text contains a standalone two-letter
\* token of a country's code set, detectCountry returns that country at
\* 0.95, wherever the token stands and whatever else the text contains.
C10_CodeTokenWins ==
    ran = "detectCountry" =>
        \A c \in 1..Len(COUNTRY_AIRPORTS) :
            \A k \in 1..Len(COUNTRY_AIRPORTS[c].codes) :
                (/\ Len(COUNTRY_AIRPORTS[c].codes[k]) = 2
                 /\ StandaloneToken(normalizeText(PageText),
                                    COUNTRY_AIRPORTS[c].codes[k]))
                    => countryFound = [country |-> COUNTRY_AIRPORTS[c].name,
                                       confidence |-> 95]

\* The first airport of the country, in table order, one of whose
\* identifying tokens the joined normalized blocks contain; 0 when none.
IdentifiedAirport(airports, blocks) ==
    FirstIndex(airports,
               LAMBDA a : SomeIncluded(join([i \in 1..Len(blocks) |->
                                                normalizeText(blocks[i])], " "),
                                       a.codes))

\* A display name upper-cased and suffixed with "AIRPORT" if absent.
CanonicalName(name) ==
    IF includes(toUpperCase(name), "AIRPORT") THEN toUpperCase(name)
    ELSE toUpperCase(name) \o " AIRPORT"

\* C11: for a known country, when the joined normalized blocks contain an
\* identifying token of one of its airports, detectAirport returns the
\* canonical display name of the first such airport, upper-cased and
\* suffixed with "AIRPORT" if absent, at 0.9; for Croatia and a text
\* containing "SPLIT" the name contains "Split" (in upper case).
C11_CanonicalAirportName ==
    ran = "detectAirport" =>
        LET c == FirstIndex(COUNTRY_AIRPORTS,
                            LAMBDA data : data.name = arg.country)
        IN  c > 0 =>
              LET airports == COUNTRY_AIRPORTS[c].airports
                  a == IdentifiedAirport(airports, arg.blocks)
              IN  a > 0 =>
                    /\ returned = [airport |-> CanonicalName(airports[a].name),
                                   confidence |-> 90]
                    /\ (arg.country = "Croatia"
                          /\ \E i \in 1..Len(arg.blocks) :
                                includes(normalizeText(arg.blocks[i]), "SPLIT"))
                        => includes(returned.airport, "SPLIT")

\* One of the arrow rules of detectStampType fires: an arrow symbol in the
\* normalized text, or an arrow pattern in a normalized block.
ArrowRuleFires(text, blocks) ==
    \/ SomeIncluded(normalizeText(text), leftArrowSymbols)
    \/ SomeIncluded(normalizeText(text), rightArrowSymbols)
    \/ \E i \in 1..Len(blocks) :
          \/ SomeIncluded(normalizeText(blocks[i]), arrowPatternsDeparture)
          \/ SomeIncluded(normalizeText(blocks[i]), arrowPatternsArrival)

\* C12: when no arrow rule fires, detectStampType returns DEPARTURE if and
\* only if the normalized text contains a departure keyword as a substring,
\* and ARRIVAL otherwise: a text with both IN and OUT is a DEPARTURE, a text
\* with no keyword an ARRIVAL.
C12_DepartureKeywordFirst ==
    (ran = "detectStampType" /\ ~ArrowRuleFires(arg.text, arg.blocks)) =>
        LET normalizedText == normalizeText(arg.text)
            departure == \E k \in 1..Len(departureKeywords) :
                            includes(normalizedText, departureKeywords[k])
            arrival == \E k \in 1..Len(arrivalKeywords) :
                          includes(normalizedText, arrivalKeywords[k])
        IN  /\ returned \in {"ARRIVAL", "DEPARTURE"}
            /\ returned = "DEPARTURE" <=> departure
            /\ (includes(normalizedText, "IN") /\ includes(normalizedText, "OUT"))
                  => returned = "DEPARTURE"
            /\ (~departure /\ ~arrival) => returned = "ARRIVAL"

\* detectStampType has classified a text with both IN and OUT, no arrow rule
\* having fired although a block held an arrow.
C12_Witness ==
    /\ ran = "detectStampType"
    /\ ~ArrowRuleFires(arg.text, arg.blocks)
    /\ includes(normalizeText(arg.text), "IN")
    /\ includes(normalizeText(arg.text), "OUT")
    /\ \E i \in 1..Len(arg.blocks) : includes(arg.blocks[i], "->")
    /\ returned = "DEPARTURE"

\* C13: for a raw date day.month.yy with a valid day and month, formatDate
\* returns DD/MM/20yy, the two-digit year being prefixed with "20" whatever
\* its value; formatDate("15.03.99") = "15/03/2099".
C13_TwoDigitYearPrefixed20 ==
    (/\ ran = "formatDate"
     /\ DecimalValue(arg.day) <= DaysIn(2000 + DecimalValue(arg.year),
                                         DecimalValue(arg.month)))
        => returned = addLeadingZeros(DecimalValue(arg.day), 2) \o "/"
                        \o addLeadingZeros(DecimalValue(arg.month), 2)
                        \o "/20" \o arg.year

\* C14: normalizeText is idempotent: normalizing what normalizeText returned
\* returns it unchanged.
C14_NormalizeTextIdempotent ==
    ran = "normalizeText" => normalizeText(returned) = returned

\* normalizeText has changed a text with a stripped character, white space
\* and a lower-case letter into a text that is not empty.
C14_Witness ==
    /\ ran = "normalizeText"
    /\ returned # arg
    /\ returned # ""
    /\ \E i \in 1..Len(arg) : charAt(arg, i) \notin Kept
    /\ \E i \in 1..Len(arg) : charAt(arg, i) \in WhiteSpace
    /\ \E i \in 1..Len(arg) : charAt(arg, i) \in CharsOf(LowerLetters)

\* The country names of the table.
KnowledgeBase == {COUNTRY_AIRPORTS[c].name : c \in 1..Len(COUNTRY_AIRPORTS)}

\* C15: every candidate parseStamp emits has a country of the table, an
\* airport that is not empty, and as confidence the smaller of the
\* country's and the airport's confidence, between 0 and 1.
C15_CandidateHasCountryAndAirport ==
    ran = "parseStamp" =>
        \A k \in 1..Len(entries) :
            LET countryResult == detectCountry(PageText)
                airportResult == detectAirport(Blocks(PageText),
                                               entries[k].Country)
            IN  /\ entries[k].Country # ""
                /\ entries[k].Country \in KnowledgeBase
                /\ entries[k].Country = countryResult.country
                /\ entries[k].Airport_Name_with_location # ""
                /\ entries[k].Airport_Name_with_location = airportResult.airport
                /\ entries[k].confidence >= 0
                /\ entries[k].confidence <= 100
                /\ entries[k].confidence <= countryResult.confidence
                /\ entries[k].confidence <= airportResult.confidence
                /\ entries[k].confidence \in {countryResult.confidence,
                                              airportResult.confidence}

\* parseStamp has emitted a candidate for a country without airports: the
\* country is certain, the airport unknown, the confidence the airport's.
C15_Witness ==
    /\ ran = "parseStamp"
    /\ \E k \in 1..Len(entries) :
          /\ entries[k].Country = "Liechtenstein"
          /\ entries[k].Airport_Name_with_location
                = "Unknown International Airport"
          /\ entries[k].confidence = 30
          /\ detectCountry(PageText).confidence = 95

\* The bounding geometry of the page's stamps is missing, has not exactly
\* four vertices, or is degenerate after clamping.
InvalidGeometry ==
    \/ "boundingPoly" \notin DOMAIN textAnnotations[1]
    \/ InvalidBox(arg.image, textAnnotations[1].boundingPoly)

\* C16: when the bounding geometry of a candidate stamp is missing, has not
\* exactly 4 vertices or is degenerate after clamping, only the image is
\* skipped: the page's result holds the candidate record with an empty
\* image reference and its sequence number, country, airport, direction,
\* date and description.
C16_InvalidGeometryKeepsRecord ==
    (/\ ran = "uploadPassportPage"
     /\ arg.file /\ returned.vision /\ returned.unlink
     /\ Len(textAnnotations) > 0
     /\ InvalidGeometry)
        => LET candidates == parseStamp(textAnnotations)
           IN  /\ Len(returned.body) = Len(candidates)
               /\ \A k \in 1..Len(returned.body) :
                     /\ returned.body[k].StampImage = ""
                     /\ \A f \in DOMAIN candidates[k] :
                           returned.body[k][f] = candidates[k][f]

----------------------------------------------------------------------------
(***************************************************************************)
(* Further properties of the GeocodingService.                             *)
(***************************************************************************)
\* C17: no name is stranded: whenever no drain loop is active (the flag is
\* false and no processQueue invocation is under way) the request queue is
\* empty, and a queued name always has a running loop that will take it.
C17_NoNameStranded ==
    /\ (~isProcessingQueue /\ DOMAIN drain = {}) => requestQueue = <<>>
    /\ Len(requestQueue) > 0 => (isProcessingQueue /\ DOMAIN drain # {})
    /\ isProcessingQueue <=> DOMAIN drain # {}

\* The loop has ended after a name that was queued while it ran: the last
\* batch released held the second name alone, both names were looked up,
\* and the queue is empty.
C17_Witness ==
    /\ ~isProcessingQueue
    /\ DOMAIN drain = {}
    /\ requestQueue = <<>>
    /\ released # <<>>
    /\ released.batch = <<2>>
    /\ lookupCount[1] = 1
    /\ lookupCount[2] = 1
    /\ \A r \in DOMAIN req : req[r].st = "fulfilled"

\* The geocodeWithRetry invocations that have not returned, those in a
\* backoff wait included.
LookupsInProgress ==
    {t \in (DOMAIN drain) \X (1..MaxQueued) :
        /\ t[2] <= Len(drain[t[1]].lk)
        /\ drain[t[1]].lk[t[2]].phase # "done"}

\* The waiters of name n are all still waiting.
NoneReleased(n) ==
    /\ Has(pendingRequests, n)
    /\ Len(pendingRequests[n]) > 0
    /\ \A p \in PosSet : NameOf(p) = n /\ PosOf(p).miss => PosOf(p).st = "waiting"

\* C18: at most 5 upstream lookups are in progress at any moment, a batch
\* holds between 1 and 5 names, and before every lookup of the current
\* batch has returned no lookup of a later batch starts and no waiter of the
\* current batch is released.
C18_BatchOfAtMostFive ==
    /\ Cardinality(LookupsInProgress) <= 5
    /\ Cardinality(DOMAIN drain) <= 1
    /\ \A d \in DOMAIN drain :
          /\ Len(drain[d].batch) \in 1..5
          /\ Len(drain[d].lk) = Len(drain[d].batch)
          /\ (\E k \in 1..Len(drain[d].lk) : drain[d].lk[k].phase # "done")
                => /\ drain[d].pc = "batch"
                   /\ \A i \in 1..Len(drain[d].batch) :
                         NoneReleased(drain[d].batch[i])
    /\ released # <<>> =>
          /\ Len(released.batch) \in 1..5
          /\ \A k \in 1..Len(released.lk) : released.lk[k].phase = "done"

\* A full batch is under way with one lookup in its backoff wait, another
\* returned, and two names left in the queue.
C18_Witness ==
    /\ Cardinality(LookupsInProgress) = 4
    /\ Len(requestQueue) = 2
    /\ \E d \in DOMAIN drain :
          /\ Len(drain[d].batch) = 5
          /\ drain[d].lk[1].phase = "done"
          /\ \E k \in 1..5 : drain[d].lk[k].phase = "backoff"
          /\ NoneReleased(drain[d].batch[1])

\* C19: within a drain, when a batch has finished and the queue is not
\* empty, the next batch starts only when a delay of 1000ms has elapsed since
\* the waiters were released, and a name that arrives during the delay joins
\* that batch (of up to 5) instead of starting a batch of its own.
C19_DelayBetweenBatches ==
    [][/\ (released' # <<>> /\ Len(requestQueue') > 0) =>
             /\ DOMAIN drain' = DOMAIN drain
             /\ requestQueue' = requestQueue
             /\ \A d \in DOMAIN drain' :
                   /\ drain'[d].pc = "delay"
                   /\ drain'[d].timer = 1000
                   /\ drain'[d].batch = drain[d].batch
                   /\ \A k \in 1..Len(drain'[d].lk) :
                         drain'[d].lk[k].phase = "done"
       /\ \A d \in DOMAIN drain :
             drain[d].pc = "delay" =>
                 /\ Len(requestQueue) > 0
                 /\ d \in DOMAIN drain'
                 /\ \/ /\ drain'[d] = drain[d]
                       /\ DOMAIN drain' = {d}
                       /\ \E n \in AllNames :
                             requestQueue' = Append(requestQueue, n)
                    \/ /\ drain'[d].pc = "batch"
                       /\ drain'[d].batch = SubSeq(requestQueue, 1,
                                                   Min(5, Len(requestQueue)))
                       /\ requestQueue' = SubSeq(requestQueue,
                                                 Len(drain'[d].batch) + 1,
                                                 Len(requestQueue))
                       /\ req' = req
      ]_vars

\* A name has arrived during the delay after a batch and waits in the queue
\* behind the name the batch left there.
C19_Witness ==
    /\ released = <<>>
    /\ Len(requestQueue) = 2
    /\ requestQueue[2] = MaxQueued + 1
    /\ \E d \in DOMAIN drain :
          /\ drain[d].pc = "delay"
          /\ drain[d].timer = 1000
          /\ Len(drain[d].batch) = 5

\* C20: a geocodeAirport call that finds its name in the memory cache or in
\* Redis returns the cached value, starts no upstream lookup and leaves the
\* request queue, the in-flight map and the flag as they are; a Redis hit
\* also stores the value in the memory cache, and a memory hit sends no
\* command to Redis.
C20_CacheHitFrame ==
    [][/\ \A r \in DOMAIN req' \ DOMAIN req :
             /\ \A i \in 1..Len(req'[r].names) :
                   Has(memoryCache, req'[r].names[i]) =>
                       /\ req'[r].pos[i].st = "done"
                       /\ req'[r].pos[i].val = memoryCache[req'[r].names[i]]
                       /\ ~req'[r].pos[i].miss
                       /\ \A k \in 1..Len(redisQ') : redisQ'[k].who # <<r, i>>
             /\ (\A i \in 1..Len(req'[r].names) :
                    Has(memoryCache, req'[r].names[i])) =>
                    /\ req'[r].st = "fulfilled"
                    /\ UNCHANGED <<requestQueue, pendingRequests,
                                   isProcessingQueue, drain, lookupCount,
                                   redisQ, memoryCache, redisStore>>
       /\ (/\ Len(redisQ) > 0
           /\ redisQ' = Tail(redisQ)
           /\ Head(redisQ).op = "get"
           /\ Has(redisStore, Head(redisQ).name)
           /\ req'[Head(redisQ).who[1]].pos[Head(redisQ).who[2]].st
                 # "rejected") =>
              LET c == Head(redisQ)
                  after == req'[c.who[1]].pos[c.who[2]]
              IN  /\ after.st = "done"
                  /\ after.val = redisStore[c.name].val
                  /\ ~after.miss
                  /\ memoryCache' = Put(memoryCache, c.name,
                                        redisStore[c.name].val)
                  /\ UNCHANGED <<requestQueue, pendingRequests,
                                 isProcessingQueue, drain, lookupCount,
                                 redisStore>>
      ]_vars

\* A call found its name in Redis and a later call found it in the memory
\* cache; no lookup was ever started for the name.
C20_Witness ==
    /\ redisOn
    /\ redisQ = <<>>
    /\ \E r1 \in DOMAIN req, r2 \in DOMAIN req :
          /\ r1 < r2
          /\ Len(req[r1].names) = 1
          /\ req[r2].names = req[r1].names
          /\ req[r1].st = "fulfilled"
          /\ req[r2].st = "fulfilled"
          /\ req[r2].conc = {}
          /\ ~req[r1].pos[1].miss
          /\ ~req[r2].pos[1].miss
          /\ req[r2].ret = req[r1].ret
          /\ lookupCount[req[r1].names[1]] = 0
          /\ Has(memoryCache, req[r1].names[1])

\* The names of the batch a processQueue invocation is looking up (between
\* the splice and the release of the waiters).
CurrentBatch ==
    UNION {{drain[d].batch[k] : k \in 1..Len(drain[d].batch)} :
              d \in {x \in DOMAIN drain : drain[x].pc = "batch"}}

Queued == {requestQueue[k] : k \in 1..Len(requestQueue)}

C22_FirstInFirstOut ==
    [][LET started ==
              IF lookupCount' # lookupCount
              THEN (CHOOSE d \in DOMAIN drain' : drain'[d].pc = "batch")
              ELSE 0
           order == IF started = 0 THEN requestQueue'
                    ELSE drain'[started].batch \o requestQueue'
       IN  /\ Len(order) >= Len(requestQueue)
           /\ SubSeq(order, 1, Len(requestQueue)) = requestQueue
           /\ started # 0 =>
                 /\ \E d \in DOMAIN drain' : drain'[d].pc = "batch"
                 /\ \A n \in AllNames :
                       lookupCount'[n] - lookupCount[n] =
                          Cardinality({k \in 1..Len(drain'[started].batch) :
                                          drain'[started].batch[k] = n})
      ]_vars

\* The second batch holds the five names pushed after the first one, in
\* their order, and the two names pushed last wait behind it.
C22_Witness ==
    /\ requestQueue = <<MaxQueued, MaxQueued + 1>>
    /\ \E d \in DOMAIN drain :
          /\ drain[d].pc = "batch"
          /\ drain[d].batch = [k \in 1..5 |-> k + 1]
    /\ lookupCount[1] = 1
    /\ lookupCount[MaxQueued] = 0

\* C23: a lookup whose outcome handed to the waiters is null has written no
\* entry for its name into either cache tier: when the waiters of a batch
\* are released with null for a name, the lookup stored nothing, and after
\* the first lookup of the name neither tier holds the name.
C23_NullLeavesNoCacheEntry ==
    released # <<>> =>
        \A k \in 1..Len(released.batch) :
            released.lk[k].result = Null =>
                /\ released.lk[k].got = Null
                /\ lookupCount[released.batch[k]] = 1 =>
                      /\ ~Has(memoryCache, released.batch[k])
                      /\ ~Has(redisStore, released.batch[k])

C25_SymmetricWindow ==
    ran = "parseStamp" =>
        LET blocks == Blocks(PageText)
            at == DateLikeBlocks(blocks)
        IN  /\ Len(entries) = Len(at)
            /\ \A k \in 1..Len(entries) :
                  entries[k].Description =
                     join(SubSeq(blocks, Max(0, (at[k] - 1) - 3) + 1,
                                 Min(Len(blocks) - 1, (at[k] - 1) + 3) + 1),
                          "\n")

\* Some two-letter code of the table stands alone in t.
CodeTokenIn(t) ==
    \E c \in 1..Len(COUNTRY_AIRPORTS) :
        \E k \in 1..Len(COUNTRY_AIRPORTS[c].codes) :
            /\ Len(COUNTRY_AIRPORTS[c].codes[k]) = 2
            /\ StandaloneToken(t, COUNTRY_AIRPORTS[c].codes[k])

\* C26: for a page text without a standalone two-letter code token,
\* detectCountry returns the country of the first city of cityMapping, in
\* declaration order, that the normalized text includes, at 0.9; otherwise
\* the first country of the table whose upper-cased name the text includes,
\* at 0.8; otherwise India at 0.5.
C26_CityThenNameThenDefault ==
    (ran = "detectCountry" /\ ~CodeTokenIn(normalizeText(PageText))) =>
        LET t == normalizeText(PageText)
            cities == {i \in 1..Len(cityMapping) : includes(t, cityMapping[i][1])}
            named == {c \in 1..Len(COUNTRY_AIRPORTS) :
                         includes(t, toUpperCase(COUNTRY_AIRPORTS[c].name))}
        IN  IF cities # {}
            THEN \E i \in cities :
                    /\ \A j \in cities : i <= j
                    /\ countryFound = [country |-> cityMapping[i][2],
                                       confidence |-> 90]
            ELSE IF named # {}
            THEN \E c \in named :
                    /\ \A d \in named : c <= d
                    /\ countryFound = [country |-> COUNTRY_AIRPORTS[c].name,
                                       confidence |-> 80]
            ELSE countryFound = [country |-> "India", confidence |-> 50]

\* The text names Zagreb before Paris and holds no code token: the country
\* is France, whose city is declared first, at 0.9.
C26_Witness ==
    /\ ran = "detectCountry"
    /\ PageText = "ZAGREB Paris"
    /\ ~CodeTokenIn(normalizeText(PageText))
    /\ countryFound = [country |-> "France", confidence |-> 90]

\* C27: detectStampType classifies a context text that contains a
\* left-pointing arrow as ARRIVAL, and a text that contains a right-pointing
\* arrow and no left-pointing one as DEPARTURE, whatever keywords the text
\* contains.
C27_ArrowsTakePrecedence ==
    ran = "detectStampType" =>
        LET left == SomeIncluded(arg.text, leftArrowSymbols)
            right == SomeIncluded(arg.text, rightArrowSymbols)
        IN  /\ left => returned = "ARRIVAL"
            /\ (right /\ ~left) => returned = "DEPARTURE"

\* C28: formatDate returns the empty string or a DD/MM/YYYY string; when the
\* day, month and year it is given are not a calendar date (the day beyond
\* the length of the month) it returns the empty string, and when they are
\* one the day, the month and the year of the result are the given ones.
C28_InvalidDateGivesEmpty ==
    ran = "formatDate" =>
        LET day == DecimalValue(arg.day)
            month == DecimalValue(arg.month)
            calendar == /\ month \in 1..12
                        /\ day \in 1..DaysIn(2000 + DecimalValue(arg.year), month)
        IN  /\ \/ returned = ""
               \/ /\ Len(returned) = 10
                  /\ \A i \in {1, 2, 4, 5, 7, 8, 9, 10} :
                        charAt(returned, i) \in Digit
                  /\ charAt(returned, 3) = "/"
                  /\ charAt(returned, 6) = "/"
            /\ ~calendar => returned = ""
            /\ calendar =>
                  /\ SubSeq(returned, 1, 2) = addLeadingZeros(day, 2)
                  /\ SubSeq(returned, 4, 5) = addLeadingZeros(month, 2)
                  /\ SubSeq(returned, 9, 10) = arg.year

\* C29: cropAndSaveStamp returns null when the polygon does not have
\* exactly 4 vertices or when the padded, clamped rectangle has no width or
\* no height; otherwise the rectangle handed to image.crop lies inside the
\* image and contains the bounding box of the polygon expanded by 15% of
\* its width and height on each side and clipped to the image (lengths in
\* hundredths of a pixel).
C29_CropInsideAndCovering ==
    ran = "cropAndSaveStamp" =>
        LET vertices == arg.boundingBox.vertices
            xs == {Coordinate(vertices[k], "x") : k \in 1..Len(vertices)}
            ys == {Coordinate(vertices[k], "y") : k \in 1..Len(vertices)}
            left == Max(0, 100 * MinOf(xs) - 15 * (MaxOf(xs) - MinOf(xs)))
            right == Min(100 * arg.image.width,
                         100 * MaxOf(xs) + 15 * (MaxOf(xs) - MinOf(xs)))
            top == Max(0, 100 * MinOf(ys) - 15 * (MaxOf(ys) - MinOf(ys)))
            bottom == Min(100 * arg.image.height,
                          100 * MaxOf(ys) + 15 * (MaxOf(ys) - MinOf(ys)))
            crop == returned.crop
        IN  /\ (Len(vertices) # 4 \/ right <= left \/ bottom <= top) =>
                  (returned.null /\ ~returned.called)
            /\ returned.called =>
                  /\ crop.x >= 0
                  /\ crop.y >= 0
                  /\ crop.width > 0
                  /\ crop.height > 0
                  /\ crop.x + crop.width <= arg.image.width
                  /\ crop.y + crop.height <= arg.image.height
                  /\ 100 * crop.x <= left
                  /\ 100 * crop.y <= top
                  /\ 100 * (crop.x + crop.width) >= right
                  /\ 100 * (crop.y + crop.height) >= bottom

\* C30: all candidates of one page carry the same country, the same airport
\* and the same confidence, those resolved over the whole page text and over
\* all its blocks; the date, the description and the direction may differ.
C30_SameCountryAndAirport ==
    ran = "parseStamp" =>
        /\ \A j \in 1..Len(entries), k \in 1..Len(entries) :
              /\ entries[j].Country = entries[k].Country
              /\ entries[j].Airport_Name_with_location =
                    entries[k].Airport_Name_with_location
              /\ entries[j].confidence = entries[k].confidence
        /\ \A k \in 1..Len(entries) :
              /\ entries[k].Country = detectCountry(PageText).country
              /\ entries[k].Airport_Name_with_location =
                    detectAirport(Blocks(PageText),
                                  detectCountry(PageText).country).airport

\* Two candidates of one page whose windows differ: the country code stands
\* in the window of the second only, the descriptions and the directions
\* differ, and both carry Croatia and the same airport and confidence.
C30_Witness ==
    /\ ran = "parseStamp"
    /\ \E j \in 1..Len(entries), k \in 1..Len(entries) :
          /\ entries[j].Description # entries[k].Description
          /\ entries[j].Arrival_Departure # entries[k].Arrival_Departure
          /\ ~includes(entries[j].Description, "HR")
          /\ includes(entries[k].Description, "HR")
          /\ entries[j].Country = "Croatia"
          /\ entries[k].Country = "Croatia"
          /\ entries[j].Airport_Name_with_location =
                entries[k].Airport_Name_with_location
          /\ entries[j].confidence = entries[k].confidence

====
